---- MODULE Spec2Model ----
(***************************************************************************)
(* AutoCodeforge: the iterate / generate / act / classify engine.          *)
(*                                                                         *)
(* Text is modelled as a sequence of one-character strings, so that        *)
(* substring search, prefix tests and regular-expression captures are      *)
(* computed character by character, as the Python code computes them.      *)
(* Paths follow the POSIX flavour of os.path.                              *)
(***************************************************************************)
EXTENDS Integers, Sequences, FiniteSets, TLC

(***************************************************************************)
(* Bounds of the model.                                                    *)
(***************************************************************************)
\* number of phrases a transcript given to the classifier is built from
MaxPhrases == 2

(***************************************************************************)
(* Text helpers: Python str operations.                                    *)
(***************************************************************************)
Min(S) == CHOOSE x \in S : \A y \in S : x <= y

\* str.startswith
StartsWith(t, p) == Len(p) <= Len(t) /\ \A j \in 1..Len(p) : t[j] = p[j]

\* p occurs in t at (1-based) position k
MatchAt(t, p, k) == k >= 1 /\ k + Len(p) - 1 <= Len(t) /\ \A j \in 1..Len(p) : t[k + j - 1] = p[j]

\* `p in t`, and re.search of a pattern without metacharacters
\* (the first character is compared before the rest)
Contains(t, p) == \E k \in 1..(Len(t) - Len(p) + 1) : (Len(p) = 0 \/ t[k] = p[1]) /\ MatchAt(t, p, k)

UpperCase == <<"A","B","C","D","E","F","G","H","I","J","K","L","M","N","O","P","Q","R","S","T","U","V","W","X","Y","Z">>
LowerCase == <<"a","b","c","d","e","f","g","h","i","j","k","l","m","n","o","p","q","r","s","t","u","v","w","x","y","z">>

LowerOf == [c \in {UpperCase[k] : k \in 1..26} |-> LowerCase[CHOOSE k \in 1..26 : UpperCase[k] = c]]

ToLower(c) == IF c \in DOMAIN LowerOf THEN LowerOf[c] ELSE c

\* the value of a one-element set (used to evaluate an expression once)
TheOne(S) == CHOOSE x \in S : TRUE

\* str.lower
Lower(t) == [k \in 1..Len(t) |-> ToLower(t[k])]

\* re.search(p, t, re.IGNORECASE) for an alternation p of literal phrases (given in lower case)
ContainsAnyIgnoreCase(t, ps) == \E lt \in {Lower(t)} : \E k \in 1..Len(ps) : Contains(lt, ps[k])

\* "\n".join(parts)
RECURSIVE JoinLines(_)
JoinLines(parts) ==
    IF Len(parts) = 0 THEN <<>>
    ELSE IF Len(parts) = 1 THEN parts[1]
    ELSE parts[1] \o <<"\n">> \o JoinLines(Tail(parts))

(***************************************************************************)
(* result_analyzer.py: ResultAnalyzer                                      *)
(***************************************************************************)
error_patterns == <<
    <<"E","R","R","O","R",":">>,
    <<"E","r","r","o","r",":">>,
    <<"E","x","c","e","p","t","i","o","n",":">>,
    <<"f","a","i","l","e","d"," ","w","i","t","h"," ","e","x","i","t"," ","c","o","d","e">>,
    <<"C","o","m","m","a","n","d"," ","f","a","i","l","e","d">>,
    <<"T","r","a","c","e","b","a","c","k"," ","(","m","o","s","t"," ","r","e","c","e","n","t"," ","c","a","l","l"," ","l","a","s","t",")">>,
    <<"M","o","d","u","l","e","N","o","t","F","o","u","n","d","E","r","r","o","r",":">>,
    <<"I","m","p","o","r","t","E","r","r","o","r",":">>,
    <<"S","y","n","t","a","x","E","r","r","o","r",":">>,
    <<"N","a","m","e","E","r","r","o","r",":">>,
    <<"T","y","p","e","E","r","r","o","r",":">>,
    <<"V","a","l","u","e","E","r","r","o","r",":">> >>

_check_for_errors(result) ==
    \E k \in 1..Len(error_patterns) : Contains(result, error_patterns[k])

success_keyword == <<"s","u","c","c","e","s","s","f","u","l","l","y">>
test_success_phrases == << <<"a","l","l"," ","t","e","s","t","s"," ","p","a","s","s","e","d">>, <<"t","e","s","t","s"," ","p","a","s","s","e","d">>, <<"t","e","s","t"," ","s","u","c","c","e","s","s","f","u","l">> >>
build_success_phrases == << <<"b","u","i","l","d"," ","s","u","c","c","e","s","s","f","u","l">>, <<"b","u","i","l","t"," ","s","u","c","c","e","s","s","f","u","l","l","y">> >>
server_started_phrases == << <<"s","e","r","v","e","r"," ","s","t","a","r","t","e","d">>, <<"r","u","n","n","i","n","g"," ","o","n">>, <<"l","i","s","t","e","n","i","n","g"," ","o","n">> >>

\* the set of tags; the code keeps them in a list in this fixed order
_identify_success_patterns(result) ==
    (IF Contains(Lower(result), success_keyword) THEN {"success_keyword"} ELSE {})
    \cup (IF ContainsAnyIgnoreCase(result, test_success_phrases) THEN {"test_success"} ELSE {})
    \cup (IF ContainsAnyIgnoreCase(result, build_success_phrases) THEN {"build_success"} ELSE {})
    \cup (IF ContainsAnyIgnoreCase(result, server_started_phrases) THEN {"server_started"} ELSE {})

CRITICAL_ERROR == <<"C","R","I","T","I","C","A","L"," ","E","R","R","O","R">>
termination_phrases == << <<"o","p","t","i","m","i","z","a","t","i","o","n"," ","c","o","m","p","l","e","t","e">>, <<"g","o","a","l"," ","a","c","h","i","e","v","e","d">>, <<"s","u","c","c","e","s","s"," ","c","r","i","t","e","r","i","a"," ","m","e","t">> >>

\* a faulty variant: terminate as soon as the iteration succeeded
_should_terminate_OnSuccess(result, success) ==
    success \/ Contains(result, CRITICAL_ERROR) \/ ContainsAnyIgnoreCase(result, termination_phrases)

\* a faulty variant: the catastrophic marker is not looked for
_should_terminate_NoCritical(result, success) ==
    ContainsAnyIgnoreCase(result, termination_phrases)

_should_terminate(result, success) ==
    IF Contains(result, CRITICAL_ERROR) THEN TRUE
    ELSE IF ContainsAnyIgnoreCase(result, termination_phrases) THEN TRUE
    ELSE FALSE

\* Characters the capture group of r"([^\\n]+)" excludes: the regular expression
\* is [^\\n]+, a class without the backslash and without the letter n.
NotBackslashN == {"\\", "n"}
NotQuote == {"'"}

\* first position from k on whose character is in excl, Len(t)+1 when there is none
RunEnd(t, k, excl) ==
    LET stops == {j \in k..Len(t) : t[j] \in excl}
    IN IF stops = {} THEN Len(t) + 1 ELSE Min(stops)

SubText(t, a, b) == [j \in 1..(b - a + 1) |-> t[a + j - 1]]

\* re.search(lit + "([^excl]+)" + closing, t): found, and group(1) (greedy run)
\* closing is <<>> or a one-character literal
SearchCapture(text, literal, excl, closing) ==
  TheOne({
    LET ok(k) == /\ t[k] = lit[1]
                 /\ MatchAt(t, lit, k)
                 /\ k + Len(lit) <= Len(t)
                 /\ t[k + Len(lit)] \notin excl
                 /\ (closing # <<>> => MatchAt(t, closing, RunEnd(t, k + Len(lit), excl)))
        ks == {k \in 1..Len(t) : ok(k)}
    IN IF ks = {} THEN [found |-> FALSE, group |-> <<>>]
       ELSE LET k == Min(ks)
            IN [found |-> TRUE,
                group |-> SubText(t, k + Len(lit), RunEnd(t, k + Len(lit), excl) - 1)]
    : t \in {text}, lit \in {literal} })

\* the ordered table of (pattern, reason format) of _determine_reason
reason_patterns == <<
    [lit |-> <<"M","o","d","u","l","e","N","o","t","F","o","u","n","d","E","r","r","o","r",":"," ","N","o"," ","m","o","d","u","l","e"," ","n","a","m","e","d"," ","'">>, excl |-> NotQuote, closing |-> <<"'">>, fmt |-> "Missing module: {}"],
    [lit |-> <<"I","m","p","o","r","t","E","r","r","o","r",":"," ">>, excl |-> NotBackslashN, closing |-> <<>>, fmt |-> "Import error: {}"],
    [lit |-> <<"S","y","n","t","a","x","E","r","r","o","r",":"," ">>, excl |-> NotBackslashN, closing |-> <<>>, fmt |-> "Syntax error: {}"],
    [lit |-> <<"T","y","p","e","E","r","r","o","r",":"," ">>, excl |-> NotBackslashN, closing |-> <<>>, fmt |-> "Type error: {}"],
    [lit |-> <<"V","a","l","u","e","E","r","r","o","r",":"," ">>, excl |-> NotBackslashN, closing |-> <<>>, fmt |-> "Value error: {}"] >>

PatternFound(t, k) ==
    SearchCapture(t, reason_patterns[k].lit, reason_patterns[k].excl, reason_patterns[k].closing).found

\* A reason is the format string and the text put in its {} (empty for a fixed reason).
Reason(fmt, arg) == [fmt |-> fmt, arg |-> arg]

\* a faulty variant: success is looked at before the catastrophic marker
_determine_reason_SuccessFirst(result, success, terminate) ==
    IF terminate THEN
        IF success THEN Reason("Success criteria met", <<>>)
        ELSE IF Contains(result, CRITICAL_ERROR) THEN Reason("Critical error occurred", <<>>)
        ELSE Reason("Termination condition detected", <<>>)
    ELSE IF ~success THEN
        LET hits == {k \in 1..Len(reason_patterns) : PatternFound(result, k)}
        IN IF hits = {} THEN Reason("Execution failed with errors", <<>>)
           ELSE LET k == Min(hits)
                    p == reason_patterns[k]
                IN Reason(p.fmt, SearchCapture(result, p.lit, p.excl, p.closing).group)
    ELSE Reason("Execution completed successfully", <<>>)

_determine_reason(result, success, terminate) ==
    IF terminate THEN
        IF Contains(result, CRITICAL_ERROR) THEN Reason("Critical error occurred", <<>>)
        ELSE IF success THEN Reason("Success criteria met", <<>>)
        ELSE Reason("Termination condition detected", <<>>)
    ELSE IF ~success THEN
        LET hits == {k \in 1..Len(reason_patterns) : PatternFound(result, k)}
        IN IF hits = {} THEN Reason("Execution failed with errors", <<>>)
           ELSE LET k == Min(hits)
                    p == reason_patterns[k]
                IN Reason(p.fmt, SearchCapture(result, p.lit, p.excl, p.closing).group)
    ELSE Reason("Execution completed successfully", <<>>)

\* a faulty variant: an empty result ends the cycle
EmptyResultAnalysis_Terminate ==
    [success |-> FALSE, has_error |-> FALSE, success_patterns |-> {},
     terminate |-> TRUE, reason |-> Reason("Empty result", <<>>), empty |-> TRUE]

\* The dictionary analyze returns; for an empty result the code returns only
\* success, reason and terminate, and callers read the other keys with .get
\* defaults: `empty` marks that short dictionary.
EmptyResultAnalysis ==
    [success |-> FALSE, has_error |-> FALSE, success_patterns |-> {},
     terminate |-> FALSE, reason |-> Reason("Empty result", <<>>), empty |-> TRUE]

\* the dictionary built from the values computed before it
analysis_dict(result, has_error, success_patterns, success) ==
    TheOne({ [success |-> success, has_error |-> has_error, success_patterns |-> success_patterns,
              terminate |-> terminate, reason |-> _determine_reason(result, success, terminate),
              empty |-> FALSE] : terminate \in {_should_terminate(result, success)} })

\* a faulty variant: a success phrase is enough for success
analyze_IgnoreErrors(result) ==
    IF result = <<>> THEN EmptyResultAnalysis
    ELSE TheOne({ analysis_dict(result, has_error, success_patterns, success_patterns # {}) :
                    has_error \in {_check_for_errors(result)},
                    success_patterns \in {_identify_success_patterns(result)} })

analyze(result) ==
    IF result = <<>> THEN EmptyResultAnalysis
    ELSE TheOne({ analysis_dict(result, has_error, success_patterns, ~has_error /\ success_patterns # {}) :
                    has_error \in {_check_for_errors(result)},
                    success_patterns \in {_identify_success_patterns(result)} })

NoAnalysis == [success |-> FALSE, has_error |-> FALSE, success_patterns |-> {},
               terminate |-> FALSE, reason |-> Reason("", <<>>), empty |-> TRUE]

(***************************************************************************)
(* os.path (posixpath) on text                                             *)
(***************************************************************************)
Slash == "/"

\* str.split(sep) for a one-character separator
RECURSIVE Split(_, _)
Split(t, c) ==
    LET ks == {k \in 1..Len(t) : t[k] = c}
    IN IF ks = {} THEN <<t>>
       ELSE <<SubText(t, 1, Min(ks) - 1)>> \o Split(SubText(t, Min(ks) + 1, Len(t)), c)

\* sep.join(parts)
RECURSIVE Join(_, _)
Join(parts, c) ==
    IF Len(parts) = 0 THEN <<>>
    ELSE IF Len(parts) = 1 THEN parts[1]
    ELSE parts[1] \o <<c>> \o Join(Tail(parts), c)

DotDot == <<".", ".">>
Dot == <<".">>

\* os.path.join(a, b)
path_join(a, b) ==
    IF StartsWith(b, <<Slash>>) THEN b
    ELSE IF a = <<>> \/ a[Len(a)] = Slash THEN a \o b
    ELSE a \o <<Slash>> \o b

\* the loop of normpath over the components
RECURSIVE NormComps(_, _, _)
NormComps(comps, new_comps, initial_slashes) ==
    IF Len(comps) = 0 THEN new_comps
    ELSE LET comp == Head(comps)
         IN IF comp = <<>> \/ comp = Dot THEN NormComps(Tail(comps), new_comps, initial_slashes)
            ELSE IF \/ comp # DotDot
                    \/ (initial_slashes = 0 /\ Len(new_comps) = 0)
                    \/ (Len(new_comps) > 0 /\ new_comps[Len(new_comps)] = DotDot)
                 THEN NormComps(Tail(comps), Append(new_comps, comp), initial_slashes)
            ELSE IF Len(new_comps) > 0
                 THEN NormComps(Tail(comps), SubSeq(new_comps, 1, Len(new_comps) - 1), initial_slashes)
            ELSE NormComps(Tail(comps), new_comps, initial_slashes)

\* os.path.normpath
normpath(path) ==
    IF path = <<>> THEN Dot
    ELSE LET initial_slashes ==
                 IF ~StartsWith(path, <<Slash>>) THEN 0
                 ELSE IF StartsWith(path, <<Slash, Slash>>) /\ ~StartsWith(path, <<Slash, Slash, Slash>>) THEN 2
                 ELSE 1
             new_comps == NormComps(Split(path, Slash), <<>>, initial_slashes)
             body == Join(new_comps, Slash)
             res == [k \in 1..initial_slashes |-> Slash] \o body
         IN IF res = <<>> THEN Dot ELSE res

\* os.path.dirname
dirname(p) ==
    LET ks == {k \in 1..Len(p) : p[k] = Slash}
        i == IF ks = {} THEN 0 ELSE CHOOSE k \in ks : \A j \in ks : j <= k
        head == SubText(p, 1, i)
        nonslash == {k \in 1..Len(head) : head[k] # Slash}
    IN IF nonslash = {} THEN head
       ELSE SubText(head, 1, CHOOSE k \in nonslash : \A j \in nonslash : j <= k)

(***************************************************************************)
(* file_manager.py: FileManager                                            *)
(***************************************************************************)
\* FileManager.project_path: abspath(base_path) joined with the sanitized project name
project_path == <<"/","w","/","p">>

\* get_full_path: the joined path, or the ValueError of the traversal check
get_full_path(relative_path) ==
    LET base_dir == project_path
    IN TheOne({ IF ~StartsWith(normpath(full_path), base_dir)
                THEN [ok |-> FALSE, full_path |-> full_path]
                ELSE [ok |-> TRUE, full_path |-> full_path]
                : full_path \in {path_join(base_dir, relative_path)} })

\* The file system: `files` maps the absolute normalised path of every regular
\* file to its content, `dirs` is the set of directories.  Without symbolic
\* links the operating system resolves a path to its normpath.
NonEmptyComps(p) == SelectSeq(Split(p, Slash), LAMBDA c : c # <<>>)

\* the k-th leading part of an absolute path with components comps, as the OS resolves it
ResolvedPrefix(comps, k) == normpath(<<Slash>> \o Join(SubSeq(comps, 1, k), Slash))

\* os.makedirs(name, exist_ok=True): every leading part becomes a directory;
\* fails at the first one that is a regular file, keeping what was created
RECURSIVE makedirs_from(_, _, _, _)
makedirs_from(comps, k, fs_files, fs_dirs) ==
    IF k > Len(comps) THEN [ok |-> TRUE, dirs |-> fs_dirs]
    ELSE TheOne({ IF d \in DOMAIN fs_files THEN [ok |-> FALSE, dirs |-> fs_dirs]
                  ELSE makedirs_from(comps, k + 1, fs_files, fs_dirs \cup {d})
                  : d \in {ResolvedPrefix(comps, k)} })

makedirs(name, fs_files, fs_dirs) ==
    TheOne({ makedirs_from(comps, 1, fs_files, fs_dirs) : comps \in {NonEmptyComps(name)} })

\* os.path.exists: every leading part is a directory and the last one exists
path_exists(p, fs_files, fs_dirs) ==
    \E comps \in {NonEmptyComps(p)} :
       /\ \A k \in 1..(Len(comps) - 1) : ResolvedPrefix(comps, k) \in fs_dirs
       /\ normpath(p) \in (DOMAIN fs_files) \cup fs_dirs

PutFile(fs_files, p, content) ==
    [q \in (DOMAIN fs_files) \cup {p} |-> IF q = p THEN content ELSE fs_files[q]]

RemoveFile(fs_files, p) == [q \in (DOMAIN fs_files) \ {p} |-> fs_files[q]]

\* JSON values as json.loads builds them
JStr(s) == [t |-> "str", s |-> s]
JNull == [t |-> "null"]
JArr(a) == [t |-> "arr", a |-> a]
JObj(o) == [t |-> "obj", o |-> o]

\* dict.get(key, default): the value of the last member with that key
Get(obj, key, default) ==
    LET ks == {k \in 1..Len(obj.o) : obj.o[k][1] = key}
    IN IF ks = {} THEN default ELSE obj.o[CHOOSE k \in ks : \A j \in ks : j <= k][2]

\* Python truthiness of a JSON value
Truthy(v) ==
    CASE v.t = "str" -> v.s # <<>>
      [] v.t = "null" -> FALSE
      [] v.t = "arr" -> v.a # <<>>
      [] v.t = "obj" -> v.o # <<>>

\* write_file: [raised, files, dirs]
write_file(relative_path, content, fs_files, fs_dirs) ==
    TheOne({
        IF ~g.ok THEN [raised |-> "ValueError", files |-> fs_files, dirs |-> fs_dirs]
        ELSE TheOne({
            IF ~m.ok THEN [raised |-> "OSError", files |-> fs_files, dirs |-> m.dirs]
            ELSE IF target \in m.dirs THEN [raised |-> "OSError", files |-> fs_files, dirs |-> m.dirs]
            ELSE IF content.t # "str"
                 \* open(..., 'w') has created or truncated the file when f.write raises
                 THEN [raised |-> "TypeError", files |-> PutFile(fs_files, target, <<>>), dirs |-> m.dirs]
            ELSE [raised |-> "", files |-> PutFile(fs_files, target, content.s), dirs |-> m.dirs]
            : m \in {makedirs(dirname(g.full_path), fs_files, fs_dirs)}, target \in {normpath(g.full_path)} })
        : g \in {get_full_path(relative_path)} })

\* a faulty variant: os.remove is called without the os.path.exists test
delete_file_Strict(relative_path, fs_files, fs_dirs) ==
    TheOne({
        IF ~g.ok THEN [raised |-> "ValueError", files |-> fs_files, dirs |-> fs_dirs]
        ELSE TheOne({ IF target \in DOMAIN fs_files
                      THEN [raised |-> "", files |-> RemoveFile(fs_files, target), dirs |-> fs_dirs]
                      ELSE [raised |-> "OSError", files |-> fs_files, dirs |-> fs_dirs]
                      : target \in {normpath(g.full_path)} })
        : g \in {get_full_path(relative_path)} })

\* delete_file: [raised, files, dirs]
delete_file(relative_path, fs_files, fs_dirs) ==
    TheOne({
        IF ~g.ok THEN [raised |-> "ValueError", files |-> fs_files, dirs |-> fs_dirs]
        ELSE IF path_exists(g.full_path, fs_files, fs_dirs)
             THEN TheOne({ IF target \in fs_dirs
                           THEN [raised |-> "OSError", files |-> fs_files, dirs |-> fs_dirs]
                           ELSE [raised |-> "", files |-> RemoveFile(fs_files, target), dirs |-> fs_dirs]
                           : target \in {normpath(g.full_path)} })
        ELSE [raised |-> "", files |-> fs_files, dirs |-> fs_dirs]
        : g \in {get_full_path(relative_path)} })

(***************************************************************************)
(* main.py: AutoCodeforge.execute_file_actions                             *)
(***************************************************************************)
K_action == <<"a","c","t","i","o","n">>
K_path == <<"p","a","t","h">>
K_content == <<"c","o","n","t","e","n","t">>
K_file_actions == <<"f","i","l","e","_","a","c","t","i","o","n","s">>
K_shell_actions == <<"s","h","e","l","l","_","a","c","t","i","o","n","s">>
K_explanation == <<"e","x","p","l","a","n","a","t","i","o","n">>

\* the body of the loop for one action that is a dictionary: [log, files, dirs]
\* log is what the code reports for the action
file_action_step(action, fs_files, fs_dirs) ==
    LET action_type == Get(action, K_action, JStr(<<>>))
        path == Get(action, K_path, JStr(<<>>))
        content == Get(action, K_content, JStr(<<>>))
        done(r, what) == [log |-> IF r.raised = "" THEN what ELSE "error", files |-> r.files, dirs |-> r.dirs]
        same(what) == [log |-> what, files |-> fs_files, dirs |-> fs_dirs]
    IN IF ~Truthy(path) THEN same("skipped")
       ELSE IF action_type \in {JStr(<<"c","r","e","a","t","e">>), JStr(<<"m","o","d","i","f","y">>), JStr(<<"d","e","l","e","t","e">>)} /\ path.t # "str"
            \* os.path.join raises TypeError inside the try
            THEN same("error")
       ELSE IF action_type = JStr(<<"c","r","e","a","t","e">>) THEN done(write_file(path.s, content, fs_files, fs_dirs), "created")
       ELSE IF action_type = JStr(<<"m","o","d","i","f","y">>) THEN done(write_file(path.s, content, fs_files, fs_dirs), "modified")
       ELSE IF action_type = JStr(<<"d","e","l","e","t","e">>) THEN done(delete_file(path.s, fs_files, fs_dirs), "deleted")
       ELSE same("unknown")

\* what `for action in file_actions` iterates over; raised when the value is not iterable
IterItems(v) ==
    CASE v.t = "arr" -> [raised |-> FALSE, items |-> v.a]
      [] v.t = "str" -> [raised |-> FALSE, items |-> [k \in 1..Len(v.s) |-> JStr(<<v.s[k]>>)]]
      [] v.t = "obj" -> [raised |-> FALSE, items |-> [k \in 1..Len(v.o) |-> JStr(v.o[k][1])]]
      [] v.t = "null" -> [raised |-> TRUE, items |-> <<>>]

\* a faulty variant: the loop ends at the first action that is not applied
RECURSIVE file_actions_loop_StopAtError(_, _, _, _)
file_actions_loop_StopAtError(items, fs_files, fs_dirs, log) ==
    IF Len(items) = 0 THEN [raised |-> FALSE, files |-> fs_files, dirs |-> fs_dirs, log |-> log]
    ELSE IF Head(items).t # "obj" THEN [raised |-> TRUE, files |-> fs_files, dirs |-> fs_dirs, log |-> log]
    ELSE LET r == file_action_step(Head(items), fs_files, fs_dirs)
         IN IF r.log \in {"skipped", "unknown", "error"}
            THEN [raised |-> FALSE, files |-> r.files, dirs |-> r.dirs, log |-> Append(log, r.log)]
            ELSE file_actions_loop_StopAtError(Tail(items), r.files, r.dirs, Append(log, r.log))

\* the loop: [raised, files, dirs, log]; an item without .get raises AttributeError
\* outside the try, after the actions before it were applied
RECURSIVE file_actions_loop(_, _, _, _)
file_actions_loop(items, fs_files, fs_dirs, log) ==
    IF Len(items) = 0 THEN [raised |-> FALSE, files |-> fs_files, dirs |-> fs_dirs, log |-> log]
    ELSE IF Head(items).t # "obj" THEN [raised |-> TRUE, files |-> fs_files, dirs |-> fs_dirs, log |-> log]
    ELSE LET r == file_action_step(Head(items), fs_files, fs_dirs)
         IN file_actions_loop(Tail(items), r.files, r.dirs, Append(log, r.log))

execute_file_actions(file_actions, fs_files, fs_dirs) ==
    LET it == IterItems(file_actions)
    IN IF it.raised THEN [raised |-> TRUE, files |-> fs_files, dirs |-> fs_dirs, log |-> <<>>]
       ELSE file_actions_loop(it.items, fs_files, fs_dirs, <<>>)

(***************************************************************************)
(* main.py: AutoCodeforge.parse_response                                   *)
(*                                                                         *)
(* The text of a response is a sequence of lexical units: the punctuation  *)
(* of JSON, string literals (with their characters), the literal null, and *)
(* words of prose.  Braces occur only as units of their own.               *)
(***************************************************************************)
Tok(k) == [k |-> k]
TStr(s) == [k |-> "str", s |-> s]
TProse(w) == [k |-> "prose", w |-> w]

ParseFail == [ok |-> FALSE, val |-> JNull, next |-> 0]

\* json.loads: a recursive-descent decoder; next is the position after the value
RECURSIVE ParseValue(_, _)
RECURSIVE ParseElements(_, _, _)
RECURSIVE ParseMembers(_, _, _)
ParseValue(ts, i) ==
    IF i > Len(ts) THEN ParseFail
    ELSE CASE ts[i].k = "str" -> [ok |-> TRUE, val |-> JStr(ts[i].s), next |-> i + 1]
           [] ts[i].k = "null" -> [ok |-> TRUE, val |-> JNull, next |-> i + 1]
           [] ts[i].k = "[" ->
                IF i + 1 <= Len(ts) /\ ts[i + 1].k = "]"
                THEN [ok |-> TRUE, val |-> JArr(<<>>), next |-> i + 2]
                ELSE ParseElements(ts, i + 1, <<>>)
           [] ts[i].k = "{" ->
                IF i + 1 <= Len(ts) /\ ts[i + 1].k = "}"
                THEN [ok |-> TRUE, val |-> JObj(<<>>), next |-> i + 2]
                ELSE ParseMembers(ts, i + 1, <<>>)
           [] OTHER -> ParseFail

ParseElements(ts, i, acc) ==
    LET v == ParseValue(ts, i)
    IN IF ~v.ok \/ v.next > Len(ts) THEN ParseFail
       ELSE IF ts[v.next].k = "," THEN ParseElements(ts, v.next + 1, Append(acc, v.val))
       ELSE IF ts[v.next].k = "]" THEN [ok |-> TRUE, val |-> JArr(Append(acc, v.val)), next |-> v.next + 1]
       ELSE ParseFail

ParseMembers(ts, i, acc) ==
    IF i + 1 > Len(ts) \/ ts[i].k # "str" \/ ts[i + 1].k # ":" THEN ParseFail
    ELSE LET v == ParseValue(ts, i + 2)
         IN IF ~v.ok \/ v.next > Len(ts) THEN ParseFail
            ELSE IF ts[v.next].k = "," THEN ParseMembers(ts, v.next + 1, Append(acc, <<ts[i].s, v.val>>))
            ELSE IF ts[v.next].k = "}" THEN [ok |-> TRUE, val |-> JObj(Append(acc, <<ts[i].s, v.val>>)), next |-> v.next + 1]
            ELSE ParseFail

\* json.loads(json_text): the whole text must be one value (else JSONDecodeError)
json_loads(ts) ==
    LET r == ParseValue(ts, 1)
    IN IF r.ok /\ r.next = Len(ts) + 1 THEN [ok |-> TRUE, val |-> r.val] ELSE [ok |-> FALSE, val |-> JNull]

\* the text of the content blocks of type text, concatenated
RECURSIVE response_text_of(_)
response_text_of(content) ==
    IF Len(content) = 0 THEN <<>>
    ELSE (IF Head(content).type = "text" THEN Head(content).text ELSE <<>>) \o response_text_of(Tail(content))

\* str.find('{') and str.rfind('}') + 1, counted in units, 0-based as in Python
find_open(text) ==
    LET ks == {k \in 1..Len(text) : text[k].k = "{"}
    IN IF ks = {} THEN -1 ELSE Min(ks) - 1

rfind_close_plus1(text) ==
    LET ks == {k \in 1..Len(text) : text[k].k = "}"}
    IN IF ks = {} THEN 0 ELSE (CHOOSE k \in ks : \A j \in ks : j <= k)

EmptyActions == JObj(<< <<K_file_actions, JArr(<<>>)>>, <<K_shell_actions, JArr(<<>>)>> >>)

\* a faulty variant: decode from the first { to the first }
parse_response_FirstClose(response) ==
    LET response_text == response_text_of(response)
        start_idx == find_open(response_text)
        cs == {k \in 1..Len(response_text) : response_text[k].k = "}"}
        end_idx == IF cs = {} THEN 0 ELSE Min(cs)
    IN IF start_idx >= 0 /\ end_idx > start_idx
       THEN LET d == json_loads(SubSeq(response_text, start_idx + 1, end_idx))
            IN IF d.ok THEN d.val ELSE EmptyActions
       ELSE EmptyActions

\* a faulty variant: a text that does not decode gives no dictionary at all
parse_response_NoFallback(response) ==
    LET response_text == response_text_of(response)
        start_idx == find_open(response_text)
        end_idx == rfind_close_plus1(response_text)
    IN IF start_idx >= 0 /\ end_idx > start_idx
       THEN json_loads(SubSeq(response_text, start_idx + 1, end_idx)).val
       ELSE JNull

parse_response(response) ==
    LET response_text == response_text_of(response)
        start_idx == find_open(response_text)
        end_idx == rfind_close_plus1(response_text)
    IN IF start_idx >= 0 /\ end_idx > start_idx
       THEN LET d == json_loads(SubSeq(response_text, start_idx + 1, end_idx))
            IN IF d.ok THEN d.val ELSE EmptyActions
       ELSE EmptyActions

\* whether the text holds a JSON object between its first { and its last }
Decodable(response) ==
    LET response_text == response_text_of(response)
        start_idx == find_open(response_text)
        end_idx == rfind_close_plus1(response_text)
    IN /\ start_idx >= 0
       /\ end_idx > start_idx
       /\ json_loads(SubSeq(response_text, start_idx + 1, end_idx)).ok

(***************************************************************************)
(* shell_executor.py: PowerShellExecutor.execute                           *)
(*                                                                         *)
(* What the spawned process does is the environment's choice: an outcome   *)
(* is [kind, stdout, stderr] with kind                                     *)
(*   "ok"       the process ended with exit code 0                         *)
(*   "nonzero"  the process ended with another exit code                   *)
(*   "timeout"  communicate raised TimeoutExpired                          *)
(*   "spawn"    Popen raised (caught by the last except of execute)        *)
(*   "raise"    an exception left execute (os.makedirs of the working      *)
(*              directory, before the try)                                 *)
(***************************************************************************)
Outcome(kind, stdout, stderr) == [kind |-> kind, stdout |-> stdout, stderr |-> stderr]

ERROR_PREFIX == <<"E","R","R","O","R",":">>

\* a faulty variant: the timeout message comes without the ERROR: prefix
execute_BareTimeout(outcome) ==
    CASE outcome.kind = "ok" -> outcome.stdout
      [] outcome.kind = "nonzero" ->
            <<"E","R","R","O","R",":"," ","P","o","w","e","r","S","h","e","l","l"," ","c","o","m","m","a","n","d"," ","f","a","i","l","e","d"," ","w","i","t","h"," ","e","x","i","t"," ","c","o","d","e"," ","1",":"," ">> \o outcome.stderr \o <<"\n">> \o outcome.stdout
      [] outcome.kind = "timeout" -> <<"C","o","m","m","a","n","d"," ","t","i","m","e","d"," ","o","u","t"," ","a","f","t","e","r"," ","3","0","0"," ","s","e","c","o","n","d","s">>
      [] outcome.kind = "spawn" -> <<"E","R","R","O","R",":"," ","E","r","r","o","r"," ","e","x","e","c","u","t","i","n","g"," ","P","o","w","e","r","S","h","e","l","l"," ","c","o","m","m","a","n","d",":"," ">> \o outcome.stderr

\* the string execute returns for an outcome that returns
execute(outcome) ==
    CASE outcome.kind = "ok" -> outcome.stdout
      [] outcome.kind = "nonzero" ->
            <<"E","R","R","O","R",":"," ","P","o","w","e","r","S","h","e","l","l"," ","c","o","m","m","a","n","d"," ","f","a","i","l","e","d"," ","w","i","t","h"," ","e","x","i","t"," ","c","o","d","e"," ","1",":"," ">> \o outcome.stderr \o <<"\n">> \o outcome.stdout
      [] outcome.kind = "timeout" -> <<"E","R","R","O","R",":"," ","C","o","m","m","a","n","d"," ","t","i","m","e","d"," ","o","u","t"," ","a","f","t","e","r"," ","3","0","0"," ","s","e","c","o","n","d","s">>
      [] outcome.kind = "spawn" -> <<"E","R","R","O","R",":"," ","E","r","r","o","r"," ","e","x","e","c","u","t","i","n","g"," ","P","o","w","e","r","S","h","e","l","l"," ","c","o","m","m","a","n","d",":"," ">> \o outcome.stderr

\* the processes started for the command that may still run when execute
\* returns or raises. communicate() returns once the shell and every process
\* holding its pipes have ended; on TimeoutExpired process.kill() ends the
\* shell only, so a process the shell started may run on.
processes_left(outcome) ==
    IF outcome.kind = "timeout" THEN { {}, {"child"} } ELSE { {} }

(***************************************************************************)
(* main.py: AutoCodeforge.execute_shell_actions                            *)
(***************************************************************************)
\* str(cmd) as the f-strings render an element of shell_actions
PyStr(v) ==
    CASE v.t = "str" -> v.s
      [] v.t = "null" -> <<"N","o","n","e">>
      [] v.t = "arr" -> <<"[",".",".",".","]">>
      [] v.t = "obj" -> <<"{",".",".",".","}">>

\* a faulty variant: the entry holds the command and not what it printed
shell_entry_NoResult(cmd, outcome) ==
    <<"C","o","m","m","a","n","d",":"," ">> \o cmd \o <<"\n","R","e","s","u","l","t",":","\n">> \o <<"\n">>

\* the element appended to all_results for one command
shell_entry(cmd, outcome) ==
    IF outcome.kind = "raise"
    THEN <<"C","o","m","m","a","n","d",":"," ">> \o cmd \o <<"\n","E","r","r","o","r",":"," ","E","r","r","o","r"," ","e","x","e","c","u","t","i","n","g"," ","c","o","m","m","a","n","d"," ","'">> \o cmd \o <<"'",":"," ">> \o outcome.stderr \o <<"\n">>
    ELSE <<"C","o","m","m","a","n","d",":"," ">> \o cmd \o <<"\n","R","e","s","u","l","t",":","\n">> \o execute(outcome) \o <<"\n">>

(***************************************************************************)
(* State                                                                   *)
(***************************************************************************)
VARIABLES
    pc,              \* position in run_cycle (or the phase of a component run on its own)
    iterations,      \* run_cycle's argument
    i,               \* the loop variable of run_cycle; -1 while it is unbound
    response,        \* the generator's reply of this iteration: its content blocks
    actions,         \* the dictionary parse_response returned
    files,           \* regular files: absolute path -> content
    dirs,            \* directories
    file_log,        \* what execute_file_actions reported, one entry per action
    shell_cmds,      \* the commands execute_shell_actions iterates over
    cmd_idx,         \* the next one to execute
    executed,        \* commands of this iteration whose execute call has ended, in call order
    all_results,     \* all_results of execute_shell_actions
    current_result,  \* run_cycle's current_result (= result)
    analysis,        \* the dictionary analyze returned
    gen_calls,       \* calls of generate_code so far
    classified,      \* calls of analyze so far
    reported,        \* the iteration count of the final report; -1 before it
    raised_by,       \* what raised the exception that left run_cycle; "" if none
    context_result,  \* context["current_result"] of the last generate_code call
    procs,           \* processes started for the last command that are still running
    trace,           \* the effects of this iteration, in the order they happened
    config,          \* self.config, as load_config returned it
    project_name,    \* the project name the application was started with
    working_directory, \* AutoCodeforge.project_path, the directory PowerShellExecutor runs commands in
    fm_project_path, \* FileManager.project_path, the directory file actions are resolved against
    outcomes         \* how the execute calls of a command list end, when that is given beforehand

vars == <<pc, iterations, i, response, actions, files, dirs, file_log, shell_cmds, cmd_idx,
          executed, all_results, current_result, analysis, gen_calls, classified, reported, raised_by,
          context_result, procs, trace, config, project_name, working_directory, fm_project_path,
          outcomes>>

\* what AutoCodeforge.__init__ fixes for the lifetime of the application
setup == <<config, project_name, working_directory, fm_project_path>>

(***************************************************************************)
(* config.py and the constructors: where the workspace is                  *)
(***************************************************************************)
\* str.strip
Whitespace == {" ", "\t", "\n"}

strip(t) ==
    LET keep == { k \in 1..Len(t) : t[k] \notin Whitespace }
    IN IF keep = {} THEN <<>>
       ELSE SubSeq(t, Min(keep), CHOOSE k \in keep : \A j \in keep : j <= k)

Digits == {"0", "1", "2", "3", "4", "5", "6", "7", "8", "9"}

\* str.isalnum of one character
isalnum(c) == c \in Digits \/ c \in {LowerCase[k] : k \in 1..26} \/ c \in {UpperCase[k] : k \in 1..26}

\* "".join(c for c in t if c.isalnum() or c in "_-")
RECURSIVE KeepNameChars(_)
KeepNameChars(t) ==
    IF Len(t) = 0 THEN <<>>
    ELSE (IF isalnum(t[1]) \/ t[1] \in {"_", "-"} THEN <<t[1]>> ELSE <<>>) \o KeepNameChars(Tail(t))

\* the longest directory name a project gets
NameLimit == 50

\* config.sanitize_project_name
sanitize_project_name(name) ==
    LET lowered == Lower(strip(name))
        replaced == [k \in 1..Len(lowered) |-> IF lowered[k] = " " THEN "_" ELSE lowered[k]]
        kept == KeepNameChars(replaced)
        safe_name == IF kept = <<>> THEN <<"p","r","o","j","e","c","t">> ELSE kept
    IN IF Len(safe_name) > NameLimit THEN SubSeq(safe_name, 1, NameLimit) ELSE safe_name

\* FileManager._sanitize_project_name
_sanitize_project_name(name) ==
    LET lowered == Lower(strip(name))
        replaced == [k \in 1..Len(lowered) |-> IF lowered[k] = " " THEN "_" ELSE lowered[k]]
        kept == KeepNameChars(replaced)
        safe_name == IF kept = <<>> THEN <<"p","r","o","j","e","c","t">> ELSE kept
    IN IF Len(safe_name) > NameLimit THEN SubSeq(safe_name, 1, NameLimit) ELSE safe_name

\* the entries of DEFAULT_CONFIG that place the workspace and steer the cycle
DEFAULT_CONFIG ==
    [file_manager |-> [base_path |-> <<"/","w">>, project_subdirs |-> TRUE],
     cycle |-> [stop_on_error |-> FALSE]]

\* the project name of the engine runs
DefaultProject == <<"p">>

\* config.get_project_path: the directory AutoCodeforge keeps as project_path
get_project_path(cfg, name) ==
    IF cfg.file_manager.project_subdirs
    THEN path_join(cfg.file_manager.base_path, sanitize_project_name(name))
    ELSE cfg.file_manager.base_path

\* FileManager.__init__: the directory kept as FileManager.project_path
\* (base paths are absolute and normalized here, so abspath changes nothing)
FileManager_project_path(base_path, name) ==
    IF name # <<>>
    THEN path_join(normpath(base_path), _sanitize_project_name(name))
    ELSE normpath(base_path)

\* the state AutoCodeforge.__init__ leaves for configuration cfg and project name
Constructed(cfg, name) ==
    /\ config = cfg
    /\ project_name = name
    /\ working_directory = get_project_path(cfg, name)
    /\ fm_project_path = FileManager_project_path(cfg.file_manager.base_path, name)

\* current_result = None
NoneText == <<"<None>">>

\* one effect of an iteration: the k-th file action handled, the
\* working-directory command run, the k-th command handed to the executor
Effect(e, k) == [e |-> e, k |-> k]

\* largest iteration bound given to run_cycle
MaxIter == 3

(***************************************************************************)
(* The environment: generator replies, process outcomes, the file system   *)
(* at start.                                                               *)
(***************************************************************************)
ArrToks(elems) ==
    IF Len(elems) = 0 THEN <<Tok("["), Tok("]")>>
    ELSE <<Tok("[")>> \o elems[1]
         \o (IF Len(elems) >= 2 THEN <<Tok(",")>> \o elems[2] ELSE <<>>)
         \o (IF Len(elems) >= 3 THEN <<Tok(",")>> \o elems[3] ELSE <<>>)
         \o (IF Len(elems) >= 4 THEN <<Tok(",")>> \o elems[4] ELSE <<>>)
         \o <<Tok("]")>>

FileActionToks(type, path, content) ==
    <<Tok("{"), TStr(K_action), Tok(":"), TStr(type), Tok(","),
      TStr(K_path), Tok(":"), TStr(path), Tok(","),
      TStr(K_content), Tok(":"), content, Tok("}")>>

PayloadToks(fa, sa) ==
    <<Tok("{"), TStr(K_explanation), Tok(":"), TStr(<<"x">>), Tok(","),
      TStr(K_file_actions), Tok(":")>> \o fa \o
    <<Tok(","), TStr(K_shell_actions), Tok(":")>> \o sa \o <<Tok("}")>>

Cmd_echo_hi == <<"e","c","h","o"," ","h","i">>
Cmd_run == <<"p","y","t","h","o","n"," ","c","a","l","c",".","p","y"," ","1"," ","+"," ","2">>

\* {"explanation":"x","file_actions":[],"shell_actions":["echo hi"]}
EchoPayload == PayloadToks(ArrToks(<<>>), ArrToks(<< <<TStr(Cmd_echo_hi)>> >>))

Text(ts) == << [type |-> "text", text |-> ts] >>

Responses == {
    \* the payload inside prose
    Text(<<TProse("Here"), TProse("is")>> \o EchoPayload \o <<TProse("Done")>>),
    \* one file and two commands, after a block that is not text
    << [type |-> "thinking", text |-> <<TProse("hm")>>] >> \o
    Text(PayloadToks(ArrToks(<< FileActionToks(<<"c","r","e","a","t","e">>, <<"c","a","l","c",".","p","y">>, TStr(<<"c","1">>)) >>),
                     ArrToks(<< <<TStr(Cmd_run)>>, <<TStr(Cmd_echo_hi)>> >>))),
    \* a path that leaves the project directory, then a deletion
    Text(PayloadToks(ArrToks(<< FileActionToks(<<"m","o","d","i","f","y">>, <<".",".","/","p","2","/","x">>, TStr(<<"c","1">>)),
                                FileActionToks(<<"d","e","l","e","t","e">>, <<"c","a","l","c",".","p","y">>, TStr(<<>>)) >>),
                     ArrToks(<<>>))),
    \* prose without braces (what the mock client answers)
    Text(<<TProse("I"), TProse("received"), TProse("your"), TProse("prompt")>>),
    \* braces in the prose before the payload
    Text(<<TProse("Use"), Tok("{"), TProse("name"), Tok("}"), TProse("as")>> \o EchoPayload),
    \* a payload cut off before its closing brace
    Text(<<Tok("{"), TStr(K_explanation), Tok(":"), TStr(<<"x">>), Tok(","), TStr(K_shell_actions), Tok(":"),
           Tok("["), TStr(Cmd_echo_hi)>>),
    \* file_actions is null
    Text(PayloadToks(<<Tok("null")>>, ArrToks(<< <<TStr(Cmd_echo_hi)>> >>))),
    \* a path above the project directory, no path, an unknown action, then a file and a command
    Text(PayloadToks(ArrToks(<< FileActionToks(<<"c","r","e","a","t","e">>, <<".",".","/",".",".","/","e">>, TStr(<<"c","1">>)),
                                <<Tok("{"), TStr(K_action), Tok(":"), TStr(<<"c","r","e","a","t","e">>), Tok(","),
                                  TStr(K_content), Tok(":"), TStr(<<"c","1">>), Tok("}")>>,
                                FileActionToks(<<"r","e","n","a","m","e">>, <<"c","a","l","c",".","p","y">>, TStr(<<>>)),
                                FileActionToks(<<"c","r","e","a","t","e">>, <<"b">>, TStr(<<"c","1">>)) >>),
                     ArrToks(<< <<TStr(Cmd_echo_hi)>> >>)))
}

StdoutTexts == { <<"3">>, <<"A","l","l"," ","t","e","s","t","s"," ","p","a","s","s","e","d">>, <<"g","o","a","l"," ","a","c","h","i","e","v","e","d">>, <<"C","R","I","T","I","C","A","L"," ","E","R","R","O","R">> }
StderrText == <<"b","o","o","m">>
WarningText == <<"w","a","r","n">>
ExceptionText == <<"P","e","r","m","i","s","s","i","o","n"," ","d","e","n","i","e","d">>

\* the outcomes of one call of execute
Outcomes ==
    {Outcome("ok", out, <<>>) : out \in StdoutTexts}
    \cup {Outcome("ok", <<"3">>, WarningText)}
    \cup {Outcome("nonzero", <<"3">>, StderrText), Outcome("timeout", <<>>, <<>>),
          Outcome("spawn", <<>>, ExceptionText), Outcome("raise", <<>>, ExceptionText)}

\* the project directory /w/p next to another project /w/p2 that holds a file
InitFiles == [p \in { <<"/","w","/","p","2","/","x">> } |-> <<"o","r","i","g">>]
InitDirs == { <<"/">>, <<"/","w">>, <<"/","w","/","p">>, <<"/","w","/","p","2">> }

(***************************************************************************)
(* main.py: AutoCodeforge.run_cycle                                        *)
(***************************************************************************)
Init ==
    /\ outcomes = <<>>
    /\ Constructed(DEFAULT_CONFIG, DefaultProject)
    /\ pc = "start"
    /\ iterations \in 0..MaxIter
    /\ i = -1
    /\ response = <<>>
    /\ actions = EmptyActions
    /\ files = InitFiles
    /\ dirs = InitDirs
    /\ file_log = <<>>
    /\ shell_cmds = <<>>
    /\ cmd_idx = 1
    /\ executed = <<>>
    /\ all_results = <<>>
    /\ current_result = NoneText
    /\ analysis = NoAnalysis
    /\ gen_calls = 0
    /\ classified = 0
    /\ reported = -1
    /\ raised_by = ""
    /\ context_result = NoneText
    /\ procs = {}
    /\ trace = <<>>

\* what run_cycle keeps of the iterations it has completed: the locals
\* actions, result and analysis, each bound anew in every round of the loop;
\* no list of records exists
history ==
    IF classified = 0 THEN <<>>
    ELSE << [index |-> classified - 1, actions |-> actions, results |-> all_results,
             outcome |-> analysis] >>

\* `for i in range(iterations)` is entered; with an empty range the line after
\* the loop reads i, which was never bound: UnboundLocalError
EnterLoop ==
    /\ UNCHANGED setup
    /\ UNCHANGED outcomes
    /\ pc = "start"
    /\ IF iterations >= 1
       THEN /\ i' = 0
            /\ pc' = "generate"
            /\ UNCHANGED raised_by
       ELSE /\ pc' = "raised"
            /\ raised_by' = "UnboundLocalError"
            /\ UNCHANGED i
    /\ UNCHANGED <<iterations, response, actions, files, dirs, file_log, shell_cmds, cmd_idx,
                   executed, all_results, current_result, analysis, gen_calls, classified, reported>>
    /\ UNCHANGED <<context_result, procs, trace>>

\* a faulty variant: the context keeps the transcript it was first given
Generate_StaleContext ==
    /\ UNCHANGED setup
    /\ UNCHANGED outcomes
    /\ pc = "generate"
    /\ gen_calls' = gen_calls + 1
    /\ context_result' = context_result
    /\ trace' = <<>>
    /\ UNCHANGED procs
    /\ \/ \E r \in Responses : response' = r /\ pc' = "parse" /\ UNCHANGED raised_by
       \/ response' = <<>> /\ pc' = "raised" /\ raised_by' = "send_message"
    /\ UNCHANGED <<iterations, i, actions, files, dirs, file_log, shell_cmds, cmd_idx,
                   executed, all_results, current_result, analysis, classified, reported>>

\* 1. generate_code(topic, current_result, i): the context is built from its
\* arguments, then send_message returns a reply, or raises (nothing catches it)
Generate ==
    /\ UNCHANGED setup
    /\ UNCHANGED outcomes
    /\ pc = "generate"
    /\ gen_calls' = gen_calls + 1
    /\ context_result' = current_result
    /\ trace' = <<>>
    /\ UNCHANGED procs
    /\ \/ \E r \in Responses : response' = r /\ pc' = "parse" /\ UNCHANGED raised_by
       \/ response' = <<>> /\ pc' = "raised" /\ raised_by' = "send_message"
    /\ UNCHANGED <<iterations, i, actions, files, dirs, file_log, shell_cmds, cmd_idx,
                   executed, all_results, current_result, analysis, classified, reported>>

\* 2. parse_response
Parse ==
    /\ UNCHANGED setup
    /\ UNCHANGED outcomes
    /\ pc = "parse"
    /\ actions' = parse_response(response)
    /\ pc' = "files"
    /\ UNCHANGED <<iterations, i, response, files, dirs, file_log, shell_cmds, cmd_idx,
                   executed, all_results, current_result, analysis, gen_calls, classified, reported, raised_by>>
    /\ UNCHANGED <<context_result, procs, trace>>

\* 3. execute_file_actions(actions.get("file_actions", [])); actions.get raises
\* AttributeError when parse_response returned no dictionary
ExecuteFileActions ==
    /\ UNCHANGED setup
    /\ UNCHANGED outcomes
    /\ pc = "files"
    /\ IF actions.t # "obj"
       THEN pc' = "raised" /\ raised_by' = "run_cycle" /\ UNCHANGED <<files, dirs, file_log, trace>>
       ELSE \E r \in {execute_file_actions(Get(actions, K_file_actions, JArr(<<>>)), files, dirs)} :
              /\ files' = r.files
              /\ dirs' = r.dirs
              /\ file_log' = r.log
              /\ trace' = trace \o [k \in 1..Len(r.log) |-> Effect("file", k)]
              /\ IF r.raised THEN pc' = "raised" /\ raised_by' = "execute_file_actions"
                             ELSE pc' = "shell" /\ UNCHANGED raised_by
    /\ UNCHANGED <<iterations, i, response, actions, shell_cmds, cmd_idx,
                   executed, all_results, current_result, analysis, gen_calls, classified, reported>>
    /\ UNCHANGED <<context_result, procs>>

\* 4. execute_shell_actions, up to its loop: the working-directory check (not
\* in a try), then the for statement over actions.get("shell_actions", [])
BeginShellActions ==
    /\ UNCHANGED setup
    /\ UNCHANGED outcomes
    /\ pc = "shell"
    /\ all_results' = <<>>
    /\ executed' = <<>>
    /\ cmd_idx' = 1
    /\ \E o \in {Outcome("ok", <<"/","w","/","p">>, <<>>), Outcome("timeout", <<>>, <<>>), Outcome("raise", <<>>, ExceptionText)} :
          LET it == IterItems(Get(actions, K_shell_actions, JArr(<<>>)))
          IN IF o.kind = "raise"
             THEN pc' = "raised" /\ raised_by' = "execute" /\ shell_cmds' = <<>> /\ UNCHANGED trace
             ELSE /\ trace' = Append(trace, Effect("check", 0))
                  /\ IF it.raised
                     THEN pc' = "raised" /\ raised_by' = "execute_shell_actions" /\ shell_cmds' = <<>>
                     ELSE /\ pc' = "commands"
                          /\ shell_cmds' = [k \in 1..Len(it.items) |-> PyStr(it.items[k])]
                          /\ UNCHANGED raised_by
    /\ UNCHANGED <<iterations, i, response, actions, files, dirs, file_log,
                   current_result, analysis, gen_calls, classified, reported>>
    /\ UNCHANGED <<context_result, procs>>

\* a faulty variant: the commands are taken from the end of the list
ExecuteCommand_LastFirst ==
    /\ UNCHANGED setup
    /\ UNCHANGED outcomes
    /\ pc = "commands"
    /\ cmd_idx <= Len(shell_cmds)
    /\ \E o \in Outcomes :
          /\ executed' = Append(executed, shell_cmds[Len(shell_cmds) + 1 - cmd_idx])
          /\ all_results' = Append(all_results, shell_entry(shell_cmds[Len(shell_cmds) + 1 - cmd_idx], o))
          /\ procs' \in processes_left(o)
    /\ cmd_idx' = cmd_idx + 1
    /\ trace' = Append(trace, Effect("cmd", Len(shell_cmds) + 1 - cmd_idx))
    /\ UNCHANGED context_result
    /\ UNCHANGED <<pc, iterations, i, response, actions, files, dirs, file_log, shell_cmds,
                   current_result, analysis, gen_calls, classified, reported, raised_by>>

\* a faulty variant: the loop over the commands ends at the first one that fails
ExecuteCommand_StopOnError ==
    /\ UNCHANGED setup
    /\ UNCHANGED outcomes
    /\ pc = "commands"
    /\ cmd_idx <= Len(shell_cmds)
    /\ \E o \in Outcomes :
          /\ executed' = Append(executed, shell_cmds[cmd_idx])
          /\ all_results' = Append(all_results, shell_entry(shell_cmds[cmd_idx], o))
          /\ cmd_idx' = IF o.kind = "ok" THEN cmd_idx + 1 ELSE Len(shell_cmds) + 1
          /\ procs' \in processes_left(o)
    /\ trace' = Append(trace, Effect("cmd", cmd_idx))
    /\ UNCHANGED context_result
    /\ UNCHANGED <<pc, iterations, i, response, actions, files, dirs, file_log, shell_cmds,
                   current_result, analysis, gen_calls, classified, reported, raised_by>>

\* a faulty variant: with cycle.stop_on_error set, the loop over the commands
\* ends at the first result that reports an error
ExecuteCommand_ConsultStopOnError ==
    /\ UNCHANGED setup
    /\ UNCHANGED outcomes
    /\ pc = "commands"
    /\ cmd_idx <= Len(shell_cmds)
    /\ \E o \in Outcomes :
          /\ executed' = Append(executed, shell_cmds[cmd_idx])
          /\ all_results' = Append(all_results, shell_entry(shell_cmds[cmd_idx], o))
          /\ cmd_idx' = IF config.cycle.stop_on_error /\ o.kind # "ok"
                        THEN Len(shell_cmds) + 1 ELSE cmd_idx + 1
          /\ procs' \in processes_left(o)
    /\ trace' = Append(trace, Effect("cmd", cmd_idx))
    /\ UNCHANGED context_result
    /\ UNCHANGED <<pc, iterations, i, response, actions, files, dirs, file_log, shell_cmds,
                   current_result, analysis, gen_calls, classified, reported, raised_by>>

\* a faulty variant: a command whose result reports a failure is executed a second time
ExecuteCommand_Retry ==
    /\ UNCHANGED setup
    /\ UNCHANGED outcomes
    /\ pc = "commands"
    /\ cmd_idx <= Len(shell_cmds)
    /\ \E o \in Outcomes : \E o2 \in Outcomes :
          /\ executed' = Append(executed, shell_cmds[cmd_idx])
          /\ all_results' = Append(all_results, shell_entry(shell_cmds[cmd_idx], IF o.kind = "ok" THEN o ELSE o2))
          /\ procs' \in processes_left(IF o.kind = "ok" THEN o ELSE o2)
          /\ trace' = IF o.kind = "ok" THEN Append(trace, Effect("cmd", cmd_idx))
                      ELSE trace \o <<Effect("cmd", cmd_idx), Effect("cmd", cmd_idx)>>
    /\ cmd_idx' = cmd_idx + 1
    /\ UNCHANGED context_result
    /\ UNCHANGED <<pc, iterations, i, response, actions, files, dirs, file_log, shell_cmds,
                   current_result, analysis, gen_calls, classified, reported, raised_by>>

\* one round of `for cmd in shell_actions`: the executor is called, and its
\* result or its exception is appended to all_results
ExecuteCommand ==
    /\ UNCHANGED setup
    /\ UNCHANGED outcomes
    /\ pc = "commands"
    /\ cmd_idx <= Len(shell_cmds)
    /\ \E o \in Outcomes :
          /\ executed' = Append(executed, shell_cmds[cmd_idx])
          /\ all_results' = Append(all_results, shell_entry(shell_cmds[cmd_idx], o))
          /\ procs' \in processes_left(o)
    /\ cmd_idx' = cmd_idx + 1
    /\ trace' = Append(trace, Effect("cmd", cmd_idx))
    /\ UNCHANGED context_result
    /\ UNCHANGED <<pc, iterations, i, response, actions, files, dirs, file_log, shell_cmds,
                   current_result, analysis, gen_calls, classified, reported, raised_by>>

\* a faulty variant: the loop runs one round more than the bound (range(iterations + 1))
Classify_OneMore ==
    /\ UNCHANGED setup
    /\ UNCHANGED outcomes
    /\ pc = "commands"
    /\ cmd_idx > Len(shell_cmds)
    /\ \E result \in {JoinLines(all_results)} : \E a \in {analyze(result)} :
          /\ current_result' = result
          /\ analysis' = a
          /\ classified' = classified + 1
          /\ IF a.terminate \/ i + 1 >= iterations + 1
             THEN pc' = "done" /\ reported' = i + 1 /\ UNCHANGED i
             ELSE pc' = "generate" /\ i' = i + 1 /\ UNCHANGED reported
    /\ UNCHANGED <<iterations, response, actions, files, dirs, file_log, shell_cmds, cmd_idx,
                   executed, all_results, gen_calls, raised_by>>
    /\ UNCHANGED <<context_result, procs, trace>>

\* a faulty variant: the terminate flag of the analysis is not looked at
Classify_NoBreak ==
    /\ UNCHANGED setup
    /\ UNCHANGED outcomes
    /\ pc = "commands"
    /\ cmd_idx > Len(shell_cmds)
    /\ \E result \in {JoinLines(all_results)} : \E a \in {analyze(result)} :
          /\ current_result' = result
          /\ analysis' = a
          /\ classified' = classified + 1
          /\ IF i + 1 >= iterations
             THEN pc' = "done" /\ reported' = i + 1 /\ UNCHANGED i
             ELSE pc' = "generate" /\ i' = i + 1 /\ UNCHANGED reported
    /\ UNCHANGED <<iterations, response, actions, files, dirs, file_log, shell_cmds, cmd_idx,
                   executed, all_results, gen_calls, raised_by>>
    /\ UNCHANGED <<context_result, procs, trace>>

\* the end of execute_shell_actions ("\n".join), 5. analyze, and the decision:
\* break on terminate, else the next round of the loop or its end; after the
\* loop the report reads i + 1
Classify ==
    /\ UNCHANGED setup
    /\ UNCHANGED outcomes
    /\ pc = "commands"
    /\ cmd_idx > Len(shell_cmds)
    /\ \E result \in {JoinLines(all_results)} : \E a \in {analyze(result)} :
          /\ current_result' = result
          /\ analysis' = a
          /\ classified' = classified + 1
          /\ IF a.terminate \/ i + 1 >= iterations
             THEN pc' = "done" /\ reported' = i + 1 /\ UNCHANGED i
             ELSE pc' = "generate" /\ i' = i + 1 /\ UNCHANGED reported
    /\ UNCHANGED <<iterations, response, actions, files, dirs, file_log, shell_cmds, cmd_idx,
                   executed, all_results, gen_calls, raised_by>>
    /\ UNCHANGED <<context_result, procs, trace>>

\* Ctrl-C while send_message or a command's execute is in flight:
\* KeyboardInterrupt is no Exception, so neither execute (which would kill the
\* process only on TimeoutExpired) nor execute_shell_actions nor run_cycle
\* handles it; it leaves run_cycle. Nothing in the code ends the processes of
\* the command; whether the console's interrupt reaches them is up to the
\* environment.
Interrupt ==
    /\ UNCHANGED setup
    /\ UNCHANGED outcomes
    /\ \/ /\ pc = "generate"
          /\ gen_calls' = gen_calls + 1
          /\ context_result' = current_result
          /\ trace' = <<>>
          /\ UNCHANGED procs
       \/ /\ pc = "commands"
          /\ cmd_idx <= Len(shell_cmds)
          /\ trace' = Append(trace, Effect("cmd", cmd_idx))
          /\ procs' \in { {}, {"shell"}, {"shell", "child"} }
          /\ UNCHANGED <<gen_calls, context_result>>
    /\ pc' = "interrupted"
    /\ raised_by' = "KeyboardInterrupt"
    /\ UNCHANGED <<iterations, i, response, actions, files, dirs, file_log, shell_cmds, cmd_idx,
                   executed, all_results, current_result, analysis, classified, reported>>

Next ==
    EnterLoop \/ Generate \/ Parse \/ ExecuteFileActions \/ BeginShellActions \/ ExecuteCommand \/ Classify
    \/ Interrupt

Spec == Init /\ [][Next]_vars

(***************************************************************************)
(* ResultAnalyzer.analyze on its own: any transcript, then its analysis.   *)
(***************************************************************************)
Phrases == {
    <<"3">>,
    <<"C","R","I","T","I","C","A","L"," ","E","R","R","O","R">>,
    <<"c","r","i","t","i","c","a","l"," ","e","r","r","o","r">>,
    <<"A","l","l"," ","t","e","s","t","s"," ","p","a","s","s","e","d">>,
    <<"B","u","i","l","t"," ","s","u","c","c","e","s","s","f","u","l","l","y">>,
    <<"S","e","r","v","e","r"," ","s","t","a","r","t","e","d">>,
    <<"T","r","a","c","e","b","a","c","k"," ","(","m","o","s","t"," ","r","e","c","e","n","t"," ","c","a","l","l"," ","l","a","s","t",")">>,
    <<"O","p","t","i","m","i","z","a","t","i","o","n"," ","c","o","m","p","l","e","t","e">>,
    <<"g","o","a","l"," ","a","c","h","i","e","v","e","d">>,
    <<"S","u","c","c","e","s","s"," ","c","r","i","t","e","r","i","a"," ","m","e","t">>,
    <<"E","R","R","O","R",":"," ","C","o","m","m","a","n","d"," ","t","i","m","e","d"," ","o","u","t"," ","a","f","t","e","r"," ","3","0","0"," ","s","e","c","o","n","d","s">>,
    <<"E","r","r","o","r",":"," ","x">>,
    <<"E","x","c","e","p","t","i","o","n",":"," ","x">>,
    <<"C","o","m","m","a","n","d"," ","f","a","i","l","e","d">>,
    <<"N","a","m","e","E","r","r","o","r",":"," ","q">>,
    <<"M","o","d","u","l","e","N","o","t","F","o","u","n","d","E","r","r","o","r",":"," ","N","o"," ","m","o","d","u","l","e"," ","n","a","m","e","d"," ","'","f","o","o","'">>,
    <<"I","m","p","o","r","t","E","r","r","o","r",":"," ","b","a","d">>,
    <<"I","m","p","o","r","t","E","r","r","o","r",":"," ","n","o"," ","x">>,
    <<"S","y","n","t","a","x","E","r","r","o","r",":"," ","b","a","d">>,
    <<"T","y","p","e","E","r","r","o","r",":"," ","b","a","d">>,
    <<"V","a","l","u","e","E","r","r","o","r",":"," ","b","a","d">>
}

Transcripts == { JoinLines(ps) : ps \in UNION { [1..n -> Phrases] : n \in 0..MaxPhrases } }

InitAnalyze ==
    /\ outcomes = <<>>
    /\ Constructed(DEFAULT_CONFIG, DefaultProject)
    /\ pc = "transcript"
    /\ current_result \in Transcripts
    /\ analysis = NoAnalysis
    /\ iterations = 0 /\ i = -1 /\ response = <<>> /\ actions = EmptyActions
    /\ files = InitFiles /\ dirs = InitDirs /\ file_log = <<>>
    /\ shell_cmds = <<>> /\ cmd_idx = 1 /\ executed = <<>> /\ all_results = <<>>
    /\ gen_calls = 0 /\ classified = 0 /\ reported = -1 /\ raised_by = ""
    /\ context_result = NoneText /\ procs = {} /\ trace = <<>>

AnalyzeTranscript ==
    /\ UNCHANGED setup
    /\ UNCHANGED outcomes
    /\ pc = "transcript"
    /\ analysis' = analyze(current_result)
    /\ classified' = classified + 1
    /\ pc' = "analyzed"
    /\ UNCHANGED <<iterations, i, response, actions, files, dirs, file_log, shell_cmds, cmd_idx,
                   executed, all_results, current_result, gen_calls, reported, raised_by>>
    /\ UNCHANGED <<context_result, procs, trace>>

NextAnalyze == AnalyzeTranscript

SpecAnalyze == InitAnalyze /\ [][NextAnalyze]_vars

(***************************************************************************)
(* parse_response on its own: any reply, then its actions.                 *)
(***************************************************************************)
\* prose put before and after a payload
Proses == {
    <<>>,
    <<TProse("Here"), TProse("is")>>,
    <<TProse("Use"), Tok("{"), TProse("name"), Tok("}")>>,
    <<Tok("}"), TProse("so")>>,
    <<TProse("then"), Tok("{")>>,
    <<Tok("["), TStr(<<"q">>), Tok("]")>>
}

Bodies == {
    EchoPayload,
    <<>>,
    \* no value after the colon
    <<Tok("{"), TStr(K_explanation), Tok(":"), Tok("}")>>,
    \* cut off
    <<Tok("{"), TStr(K_explanation), Tok(":"), TStr(<<"x">>), Tok(",")>>,
    PayloadToks(ArrToks(<< FileActionToks(<<"c","r","e","a","t","e">>, <<"c","a","l","c",".","p","y">>, TStr(<<"c","1">>)) >>), ArrToks(<<>>)),
    PayloadToks(<<Tok("null")>>, <<TStr(Cmd_echo_hi)>>)
}

Replies == { Text(pre \o body \o post) : pre \in Proses, body \in Bodies, post \in Proses }

InitParse ==
    /\ outcomes = <<>>
    /\ Constructed(DEFAULT_CONFIG, DefaultProject)
    /\ pc = "reply"
    /\ response \in Replies
    /\ actions = JNull
    /\ iterations = 0 /\ i = -1
    /\ files = InitFiles /\ dirs = InitDirs /\ file_log = <<>>
    /\ shell_cmds = <<>> /\ cmd_idx = 1 /\ executed = <<>> /\ all_results = <<>>
    /\ current_result = NoneText /\ analysis = NoAnalysis
    /\ gen_calls = 0 /\ classified = 0 /\ reported = -1 /\ raised_by = ""
    /\ context_result = NoneText /\ procs = {} /\ trace = <<>>

ParseReply ==
    /\ UNCHANGED setup
    /\ UNCHANGED outcomes
    /\ pc = "reply"
    /\ actions' = parse_response(response)
    /\ pc' = "parsed"
    /\ UNCHANGED <<iterations, i, response, files, dirs, file_log, shell_cmds, cmd_idx,
                   executed, all_results, current_result, analysis, gen_calls, classified, reported, raised_by>>
    /\ UNCHANGED <<context_result, procs, trace>>

NextParse == ParseReply

SpecParse == InitParse /\ [][NextParse]_vars

(***************************************************************************)
(* execute_file_actions on its own: any sequence of calls.                 *)
(***************************************************************************)
FileAction(type, path, content) ==
    JObj(<< <<K_action, JStr(type)>>, <<K_path, path>>, <<K_content, content>> >>)

RelativePaths == {
    <<"a">>, <<"s","/","a">>, <<"s">>, <<".">>, <<"s","/",".",".","/","a">>,
    <<".",".","/","p","2","/","x">>, <<".",".","/",".",".","/","e">>, <<"/","e">>
}

Contents == { JStr(<<"c","1">>), JNull }

FileActions ==
    { FileAction(<<"c","r","e","a","t","e">>, JStr(p), c) : p \in RelativePaths, c \in Contents }
    \cup { FileAction(<<"m","o","d","i","f","y">>, JStr(p), JStr(<<"c","2">>)) : p \in RelativePaths }
    \cup { FileAction(<<"d","e","l","e","t","e">>, JStr(p), JStr(<<>>)) : p \in RelativePaths }
    \cup { FileAction(<<"r","e","n","a","m","e">>, JStr(p), JStr(<<>>)) : p \in { <<"a">> } }
    \cup { FileAction(<<"c","r","e","a","t","e">>, JStr(<<>>), JStr(<<"c","1">>)), FileAction(<<"c","r","e","a","t","e">>, JNull, JStr(<<"c","1">>)),
           JObj(<< <<K_action, JStr(<<"d","e","l","e","t","e">>)>> >>) }

\* the values given as file_actions
FileActionLists == { JArr(<<a>>) : a \in FileActions } \cup { JArr(<<>>), JNull, JArr(<<JStr(<<"a">>)>>) }

InitFileActions ==
    /\ outcomes = <<>>
    /\ Constructed(DEFAULT_CONFIG, DefaultProject)
    /\ pc = "ready"
    /\ files = InitFiles /\ dirs = InitDirs /\ file_log = <<>>
    /\ actions = JObj(<< <<K_file_actions, JArr(<<>>)>> >>)
    /\ raised_by = ""
    /\ iterations = 0 /\ i = -1 /\ response = <<>>
    /\ shell_cmds = <<>> /\ cmd_idx = 1 /\ executed = <<>> /\ all_results = <<>>
    /\ current_result = NoneText /\ analysis = NoAnalysis
    /\ gen_calls = 0 /\ classified = 0 /\ reported = -1
    /\ context_result = NoneText /\ procs = {} /\ trace = <<>>

\* one call of execute_file_actions; actions keeps the value it was given
ApplyFileActions ==
    /\ UNCHANGED setup
    /\ UNCHANGED outcomes
    /\ pc = "ready"
    /\ \E fa \in FileActionLists : \E r \in {execute_file_actions(fa, files, dirs)} :
          /\ actions' = JObj(<< <<K_file_actions, fa>> >>)
          /\ files' = r.files
          /\ dirs' = r.dirs
          /\ file_log' = r.log
          /\ raised_by' = IF r.raised THEN "execute_file_actions" ELSE ""
    /\ UNCHANGED <<pc, iterations, i, response, shell_cmds, cmd_idx, executed, all_results,
                   current_result, analysis, gen_calls, classified, reported>>
    /\ UNCHANGED <<context_result, procs, trace>>

NextFileActions == ApplyFileActions

SpecFileActions == InitFileActions /\ [][NextFileActions]_vars

(***************************************************************************)
(* Properties                                                              *)
(***************************************************************************)
\* C1: after any sequence of file actions, every regular file outside the
\* project directory (neither the directory itself nor a path below it) is
\* as it was at the start: none was created, overwritten or removed.
C1_SandboxInvariant ==
    LET InsideProject(p) == p = project_path \/ StartsWith(p, project_path \o <<Slash>>)
    IN \A p \in (DOMAIN files) \cup (DOMAIN InitFiles) :
          ~InsideProject(p) => (p \in DOMAIN files /\ p \in DOMAIN InitFiles /\ files[p] = InitFiles[p])

\* C2: a run_cycle that ends without a Terminate outcome has made exactly
\* `iterations` generator calls and `iterations` classifications, and reports
\* `iterations` completed iterations.
C2_ExactlyNIterations ==
    (pc = "done" /\ ~analysis.terminate) =>
        (iterations >= 1 /\ gen_calls = iterations /\ classified = iterations /\ reported = iterations)

C2_Witness == pc = "done" /\ ~analysis.terminate /\ iterations = 3 /\ reported = 3 /\ gen_calls = 3

\* C3: once the outcome of iteration k has Terminate, the engine is in its
\* terminal state (where no step is enabled), having made k generator calls
\* and k classifications and reporting k, whatever budget remains.
C3_TerminateStopsAtOnce ==
    analysis.terminate =>
        (pc = "done" /\ reported = i + 1 /\ gen_calls = reported /\ classified = reported /\ ~ENABLED Next)

C3_Witness == pc = "done" /\ analysis.terminate /\ reported < iterations

\* C4: Success is exactly "no error marker and a success phrase"; an error
\* marker excludes Success whatever else the transcript holds, and so does
\* the absence of every success phrase.
C4_SuccessNeedsPhraseAndNoError ==
    pc = "analyzed" =>
        /\ analysis.success = (~_check_for_errors(current_result) /\ _identify_success_patterns(current_result) # {})
        /\ (~analysis.empty => /\ analysis.has_error = _check_for_errors(current_result)
                               /\ analysis.success_patterns = _identify_success_patterns(current_result))
        /\ (Contains(current_result, <<"T","r","a","c","e","b","a","c","k"," ","(","m","o","s","t"," ","r","e","c","e","n","t"," ","c","a","l","l"," ","l","a","s","t",")">>) => ~analysis.success)
        /\ (current_result = <<"3">> => ~analysis.success)

C4_Witness ==
    /\ pc = "analyzed"
    /\ Contains(current_result, <<"T","r","a","c","e","b","a","c","k"," ","(","m","o","s","t"," ","r","e","c","e","n","t"," ","c","a","l","l"," ","l","a","s","t",")">>)
    /\ Contains(current_result, <<"A","l","l"," ","t","e","s","t","s"," ","p","a","s","s","e","d">>)
    /\ analysis.has_error
    /\ ~analysis.success

\* C5: after every classification Terminate holds exactly when the transcript
\* holds the catastrophic marker or a goal-completion phrase (in any case),
\* whatever Success and ErrorDetected are; so the loop ends before its budget
\* is used up only on such a transcript.
C5_TerminateIffMarker ==
    LET HasTerminationMarker(t) ==
            \/ Contains(t, <<"C","R","I","T","I","C","A","L"," ","E","R","R","O","R">>)
            \/ \E lt \in {Lower(t)} :
                  \/ Contains(lt, <<"o","p","t","i","m","i","z","a","t","i","o","n"," ","c","o","m","p","l","e","t","e">>)
                  \/ Contains(lt, <<"g","o","a","l"," ","a","c","h","i","e","v","e","d">>)
                  \/ Contains(lt, <<"s","u","c","c","e","s","s"," ","c","r","i","t","e","r","i","a"," ","m","e","t">>)
    IN (pc = "analyzed" \/ (classified >= 1 /\ pc \in {"generate", "done"})) =>
          /\ analysis.terminate <=> HasTerminationMarker(current_result)
          /\ (pc = "done" /\ reported < iterations) => HasTerminationMarker(current_result)

\* an iteration with errors and no marker: the loop went on
C5_Witness ==
    /\ pc = "generate"
    /\ classified >= 1
    /\ analysis.has_error
    /\ ~analysis.success
    /\ ~analysis.terminate

\* C6: a transcript with both "CRITICAL ERROR" and "All tests passed" gets
\* Terminate and the reason "Critical error occurred".
C6_CriticalWinsOverSuccess ==
    (/\ pc = "analyzed"
     /\ Contains(current_result, <<"C","R","I","T","I","C","A","L"," ","E","R","R","O","R">>)
     /\ Contains(current_result, <<"A","l","l"," ","t","e","s","t","s"," ","p","a","s","s","e","d">>)) =>
        (analysis.terminate /\ analysis.reason = Reason("Critical error occurred", <<>>))

C6_Witness ==
    /\ pc = "analyzed"
    /\ Contains(current_result, <<"C","R","I","T","I","C","A","L"," ","E","R","R","O","R">>)
    /\ Contains(current_result, <<"A","l","l"," ","t","e","s","t","s"," ","p","a","s","s","e","d">>)
    /\ analysis.success
    /\ analysis.terminate

\* C7: for a non-empty transcript the reason follows the priority
\* (1) catastrophic marker, (2) Terminate and Success, (3) Terminate,
\* (4) not Success: the first entry, in the order module-not-found, import,
\* syntax, type, value error, whose pattern occurs, else the generic failure,
\* (5) Success.
C7_ReasonPriority ==
    LET Captured(t, k) == SearchCapture(t, reason_patterns[k].lit, reason_patterns[k].excl, reason_patterns[k].closing).group
        FirstErrorReason(t) ==
            IF PatternFound(t, 1) THEN Reason("Missing module: {}", Captured(t, 1))
            ELSE IF PatternFound(t, 2) THEN Reason("Import error: {}", Captured(t, 2))
            ELSE IF PatternFound(t, 3) THEN Reason("Syntax error: {}", Captured(t, 3))
            ELSE IF PatternFound(t, 4) THEN Reason("Type error: {}", Captured(t, 4))
            ELSE IF PatternFound(t, 5) THEN Reason("Value error: {}", Captured(t, 5))
            ELSE Reason("Execution failed with errors", <<>>)
    IN (pc = "analyzed" /\ current_result # <<>>) =>
          analysis.reason =
              IF Contains(current_result, <<"C","R","I","T","I","C","A","L"," ","E","R","R","O","R">>) THEN Reason("Critical error occurred", <<>>)
              ELSE IF analysis.terminate /\ analysis.success THEN Reason("Success criteria met", <<>>)
              ELSE IF analysis.terminate THEN Reason("Termination condition detected", <<>>)
              ELSE IF ~analysis.success THEN FirstErrorReason(current_result)
              ELSE Reason("Execution completed successfully", <<>>)

\* a value error and then an import error: the import entry comes first in the table
C7_Witness ==
    /\ pc = "analyzed"
    /\ ~analysis.success
    /\ ~analysis.terminate
    /\ StartsWith(current_result, <<"V","a","l","u","e","E","r","r","o","r",":"," ","b","a","d">>)
    /\ Contains(current_result, <<"I","m","p","o","r","t","E","r","r","o","r",":"," ","b","a","d">>)
    /\ analysis.reason.fmt = "Import error: {}"

\* C8: in an iteration whose reply holds no decodable JSON object between
\* its first { and its last }, parse_response returns the empty action set,
\* no step changes a file or a directory, no command is run and the
\* transcript stays empty, and the iteration ends in the next round of the
\* loop or in the end of the budget; the only exception that can leave it is
\* one of the executor's working-directory check.
C8_MalformedIsNoOp ==
    [][(~Decodable(response) /\ pc \in {"parse", "files", "shell", "commands"}) =>
          /\ pc = "parse" => (actions' = EmptyActions /\ pc' = "files")
          /\ pc = "files" => pc' = "shell"
          /\ files' = files /\ dirs' = dirs
          /\ pc \in {"shell", "commands"} => (executed' = <<>> /\ all_results' = <<>>)
          /\ pc' = "raised" => (pc = "shell" /\ raised_by' = "execute")
          /\ pc = "commands" =>
                /\ current_result' = <<>>
                /\ ~analysis'.terminate
                /\ IF i + 1 < iterations THEN pc' = "generate" /\ i' = i + 1 ELSE pc' = "done"
      ]_vars

\* a reply with braces that does not decode was classified and the loop went on
C8_Witness ==
    /\ pc = "generate"
    /\ classified >= 1
    /\ i >= 1
    /\ ~Decodable(response)
    /\ \E k \in 1..Len(response_text_of(response)) : response_text_of(response)[k].k = "{"
    /\ actions = EmptyActions
    /\ current_result = <<>>

C10_BestEffortCommands ==
    /\ Len(executed) <= Len(shell_cmds)
    /\ executed = SubSeq(shell_cmds, 1, Len(executed))
    /\ Len(all_results) = Len(executed)
    /\ \A j \in 1..Len(all_results) : StartsWith(all_results[j], <<"C","o","m","m","a","n","d",":"," ">> \o shell_cmds[j] \o <<"\n">>)
    /\ pc = "commands" => Len(executed) = cmd_idx - 1
    /\ (pc \in {"generate", "done"} /\ classified >= 1) =>
          (Len(executed) = Len(shell_cmds) /\ current_result = JoinLines(all_results))

\* two commands, the first of which made the executor raise
C10_Witness ==
    /\ pc \in {"generate", "done"}
    /\ classified >= 1
    /\ Len(shell_cmds) = 2
    /\ executed = shell_cmds
    /\ Len(all_results) = 2
    /\ Contains(all_results[1], <<"E","r","r","o","r"," ","e","x","e","c","u","t","i","n","g"," ","c","o","m","m","a","n","d">>)

\* C11: spawn failure, timeout and non-zero exit give a result text that
\* starts with "ERROR:"; an iteration in which a command ended so is not left
\* by an exception, and its classification has ErrorDetected and no Success.
C11_FailedCommandIsError ==
    LET Failing == { o \in Outcomes : o.kind \in {"spawn", "timeout", "nonzero"} }
        failed == \E j \in 1..Len(all_results) : \E o \in Failing :
                      all_results[j] = shell_entry(shell_cmds[j], o)
        in_iteration == \E k \in 1..Len(trace) : trace[k].e = "cmd"
    IN /\ \A o \in Failing : StartsWith(execute(o), <<"E","R","R","O","R",":">>)
       /\ (in_iteration /\ failed) =>
             /\ pc # "raised"
             /\ pc \in {"generate", "done"} =>
                   /\ classified >= 1
                   /\ current_result = JoinLines(all_results)
                   /\ analysis.has_error
                   /\ ~analysis.success

\* a timeout, then a command that prints a success phrase
C11_Witness ==
    /\ pc \in {"generate", "done"}
    /\ classified >= 1
    /\ Len(all_results) = 2
    /\ all_results[1] = shell_entry(shell_cmds[1], Outcome("timeout", <<>>, <<>>))
    /\ Contains(all_results[2], <<"A","l","l"," ","t","e","s","t","s"," ","p","a","s","s","e","d">>)
    /\ analysis.has_error
    /\ ~analysis.success

\* C12: after execute has returned the timed-out result for a command, no
\* process started for that command (the shell or a process the shell
\* started) is still running.
C12_NoProcessAfterTimeout ==
    (/\ pc # "interrupted"
     /\ Len(all_results) >= 1
     /\ all_results[Len(all_results)] =
            shell_entry(shell_cmds[Len(all_results)], Outcome("timeout", <<>>, <<>>)))
        => /\ execute(Outcome("timeout", <<>>, <<>>)) = <<"E","R","R","O","R",":"," ","C","o","m","m","a","n","d"," ","t","i","m","e","d"," ","o","u","t"," ","a","f","t","e","r"," ","3","0","0"," ","s","e","c","o","n","d","s">>
           /\ procs = {}

\* C13: the call of generate_code in iteration 0 is given no previous
\* transcript; the call in iteration k >= 1 is given current_result, which is
\* the joined all_results of iteration k-1, and that text is what the
\* analysis of iteration k-1 was made of.
C13_TranscriptHandOver ==
    [][/\ (pc = "commands" /\ classified' = classified + 1) =>
             /\ current_result' = JoinLines(all_results)
             /\ \E a \in {analyze(current_result')} : analysis' = a
       /\ (pc = "generate" /\ gen_calls' = gen_calls + 1) =>
             /\ gen_calls = i
             /\ context_result' = current_result
             /\ i = 0 => context_result' = NoneText
             /\ i >= 1 => (classified = i /\ context_result' = JoinLines(all_results))
      ]_vars

\* the second call was given the transcript of the first iteration's command
C13_Witness ==
    /\ pc = "parse"
    /\ i = 1
    /\ gen_calls = 2
    /\ context_result = current_result
    /\ Contains(context_result, <<"C","o","m","m","a","n","d",":"," ","e","c","h","o"," ","h","i">>)

\* C14: in every state of the workspace and for every path, a delete action
\* on a path that does not exist raises nothing and changes nothing, a second
\* delete after a delete changes nothing more, and a second create with the
\* same path and content leaves files and directories as the first left them.
C14_DeleteAndCreateIdempotent ==
    \A p \in RelativePaths :
        /\ \E g \in {get_full_path(p)} :
              (g.ok /\ ~path_exists(g.full_path, files, dirs)) =>
                  \E d \in {delete_file(p, files, dirs)} :
                      d.raised = "" /\ d.files = files /\ d.dirs = dirs
        /\ \E a \in {JArr(<<FileAction(<<"d","e","l","e","t","e">>, JStr(p), JStr(<<>>))>>)} :
           \E d1 \in {execute_file_actions(a, files, dirs)} :
           \E d2 \in {execute_file_actions(a, d1.files, d1.dirs)} :
              /\ ~d1.raised /\ ~d2.raised
              /\ d2.files = d1.files /\ d2.dirs = d1.dirs /\ d2.log = d1.log
        /\ \A c \in Contents :
           \E a \in {JArr(<<FileAction(<<"c","r","e","a","t","e">>, JStr(p), c)>>)} :
           \E c1 \in {execute_file_actions(a, files, dirs)} :
           \E c2 \in {execute_file_actions(a, c1.files, c1.dirs)} :
              /\ ~c1.raised /\ ~c2.raised
              /\ c2.files = c1.files /\ c2.dirs = c1.dirs /\ c2.log = c1.log

\* a delete of a file that was never there, reported as done, nothing changed
C14_Witness ==
    /\ pc = "ready"
    /\ actions = JObj(<< <<K_file_actions, JArr(<<FileAction(<<"d","e","l","e","t","e">>, JStr(<<"a">>), JStr(<<>>))>>)>> >>)
    /\ file_log = <<"deleted">>
    /\ raised_by = ""
    /\ files = InitFiles
    /\ dirs = InitDirs

\* C15: a file action with no or an empty path, with an unknown action type,
\* or with a path get_full_path rejects is reported and changes nothing: the
\* call of execute_file_actions leaves files and directories as applying the
\* other actions of the list alone would, raises nothing, and the iteration
\* goes on to the commands of the action set, all of which are executed
\* before classification.
C15_BadFileActionIsSkipped ==
    [][/\ (/\ pc = "files"
           /\ actions.t = "obj"
           /\ Get(actions, K_file_actions, JArr(<<>>)).t = "arr"
           /\ \A k \in 1..Len(Get(actions, K_file_actions, JArr(<<>>)).a) :
                  Get(actions, K_file_actions, JArr(<<>>)).a[k].t = "obj") =>
             LET items == Get(actions, K_file_actions, JArr(<<>>)).a
                 Bad(a) ==
                     LET path == Get(a, K_path, JStr(<<>>))
                     IN \/ path.t = "null"
                        \/ path = JStr(<<>>)
                        \/ Get(a, K_action, JStr(<<>>)) \notin {JStr(<<"c","r","e","a","t","e">>), JStr(<<"m","o","d","i","f","y">>), JStr(<<"d","e","l","e","t","e">>)}
                        \/ (path.t = "str" /\ ~get_full_path(path.s).ok)
                 Good(a) == ~Bad(a)
             IN \E r \in {execute_file_actions(JArr(SelectSeq(items, Good)), files, dirs)} :
                   /\ pc' = "shell"
                   /\ files' = r.files
                   /\ dirs' = r.dirs
                   /\ Len(file_log') = Len(items)
                   /\ \A k \in 1..Len(items) :
                          Bad(items[k]) => file_log'[k] \in {"skipped", "unknown", "error"}
       /\ (pc = "shell" /\ pc' = "commands") =>
             \E it \in {IterItems(Get(actions, K_shell_actions, JArr(<<>>)))} :
                 shell_cmds' = [k \in 1..Len(it.items) |-> PyStr(it.items[k])]
       /\ (pc = "commands" /\ classified' = classified + 1) => executed = shell_cmds
      ]_vars

\* a rejected path, no path and an unknown type before a file and a command
C15_Witness ==
    /\ pc \in {"generate", "done"}
    /\ classified >= 1
    /\ file_log = <<"error", "skipped", "unknown", "created">>
    /\ <<"/","w","/","p","/","b">> \in DOMAIN files
    /\ executed = <<<<"e","c","h","o"," ","h","i">>>>

\* C16: no iteration whose reply decodes to a JSON object is left by an
\* exception raised while its file_actions and shell_actions are handled.
C16_NoResponseAborts ==
    ~(/\ pc = "raised"
      /\ raised_by \in {"run_cycle", "execute_file_actions", "execute_shell_actions"}
      /\ Decodable(response)
      /\ actions.t = "obj")

\* C17: a failure of send_message does not end the run.
C17_GeneratorFailureIsNotFatal ==
    ~(pc = "raised" /\ raised_by = "send_message")

\* C18: after an interrupt during send_message or a command, no process of
\* the command in flight is running, the iteration is not classified, and no
\* later step of the run follows.
C18_InterruptKillsCommand ==
    pc = "interrupted" =>
        /\ procs = {}
        /\ classified = i
        /\ ~ENABLED Next

\* C19: after k classifications the history holds k records, in iteration order.
C19_HistoryKeepsEveryRecord ==
    pc \in {"generate", "done"} =>
        /\ Len(history) = classified
        /\ \A k \in 1..Len(history) : history[k].index = k - 1

\* C20: the effects of an iteration are, in this order, the file actions in
\* list order, the working-directory command, the commands in list order; the
\* working-directory command and so every command comes after the last file
\* action was handled, and the transcript lists the commands in list order.
C20_EffectsInOrder ==
    /\ \A k \in 1..Len(trace) :
          /\ trace[k].e = "file" => (trace[k].k = k /\ k <= Len(file_log))
          /\ trace[k].e = "check" =>
                /\ k = Len(file_log) + 1
                /\ Len(file_log) = Len(IterItems(Get(actions, K_file_actions, JArr(<<>>))).items)
          /\ trace[k].e = "cmd" =>
                /\ k > Len(file_log) + 1
                /\ trace[Len(file_log) + 1].e = "check"
                /\ trace[k].k = k - (Len(file_log) + 1)
                /\ trace[k].k <= Len(shell_cmds)
                /\ shell_cmds[trace[k].k] = PyStr(IterItems(Get(actions, K_shell_actions, JArr(<<>>))).items[trace[k].k])
    /\ (\E k \in 1..Len(trace) : trace[k].e = "cmd") =>
          \A j \in 1..Len(all_results) :
              /\ trace[Len(file_log) + 1 + j] = Effect("cmd", j)
              /\ StartsWith(all_results[j], <<"C","o","m","m","a","n","d",":"," ">> \o shell_cmds[j] \o <<"\n">>)

\* one file action, the working-directory command, two commands
C20_Witness ==
    /\ pc \in {"generate", "done"}
    /\ trace = <<Effect("file", 1), Effect("check", 0), Effect("cmd", 1), Effect("cmd", 2)>>
    /\ file_log = <<"created">>
    /\ Len(all_results) = 2
    /\ Contains(all_results[2], <<"C","o","m","m","a","n","d",":"," ","e","c","h","o"," ","h","i">>)

\* C21: when the process of a command has ended (exit code zero or not), the
\* text execute returns, and so the command's entry in the transcript,
\* contains all of the standard output and all of the standard error.
C21_FullOutputInTranscript ==
    \A j \in 1..Len(all_results) : \A o \in Outcomes :
        (/\ o.kind \in {"ok", "nonzero"}
         /\ all_results[j] = shell_entry(shell_cmds[j], o))
            => /\ Contains(execute(o), o.stdout)
               /\ Contains(execute(o), o.stderr)
               /\ Contains(all_results[j], o.stdout)
               /\ Contains(all_results[j], o.stderr)

(***************************************************************************)
(* The engine under either value of cycle.stop_on_error                    *)
(***************************************************************************)
\* longest run when the configuration varies
MaxRun == 2

\* the configurations load_config yields when a config file sets cycle.stop_on_error
StopOnErrorConfigs ==
    { [DEFAULT_CONFIG EXCEPT !.cycle.stop_on_error = b] : b \in BOOLEAN }

InitConfig ==
    /\ outcomes = <<>>
    /\ \E cfg \in StopOnErrorConfigs : Constructed(cfg, DefaultProject)
    /\ pc = "start"
    /\ iterations \in 0..MaxRun
    /\ i = -1
    /\ response = <<>>
    /\ actions = EmptyActions
    /\ files = InitFiles
    /\ dirs = InitDirs
    /\ file_log = <<>>
    /\ shell_cmds = <<>>
    /\ cmd_idx = 1
    /\ executed = <<>>
    /\ all_results = <<>>
    /\ current_result = NoneText
    /\ analysis = NoAnalysis
    /\ gen_calls = 0
    /\ classified = 0
    /\ reported = -1
    /\ raised_by = ""
    /\ context_result = NoneText
    /\ procs = {}
    /\ trace = <<>>

SpecConfig == InitConfig /\ [][Next]_vars

\* C22: cycle.stop_on_error is not consulted. With the flag set as with the
\* flag clear, the command after a failed one is still executed, and the
\* loop over the iterations ends exactly when the classification says
\* Terminate or the bound is reached: the same steps follow from the same
\* responses and command results, whatever the flag.
C22_StopOnErrorNotConsulted ==
    [][ /\ config' = config
        /\ (pc = "commands" /\ pc' = "commands") =>
              /\ cmd_idx' = cmd_idx + 1
              /\ Len(all_results') = cmd_idx
              /\ shell_cmds' = shell_cmds
        /\ (classified' = classified + 1) =>
              /\ (pc' = "done") = (analysis'.terminate \/ i + 1 >= iterations)
              /\ (pc' # "done") => (pc' = "generate" /\ i' = i + 1)
              /\ current_result' = JoinLines(all_results)
      ]_vars

\* the flag is set, the first of two commands failed, the second was run and
\* the next iteration has begun
C22_Witness ==
    /\ config.cycle.stop_on_error
    /\ pc = "generate"
    /\ classified >= 1
    /\ i >= 1
    /\ Len(all_results) = 2
    /\ Contains(all_results[1], <<"R","e","s","u","l","t",":","\n","E","R","R","O","R",":">>)
    /\ analysis.has_error

\* C23: with an iteration bound of zero or less, run_cycle calls the
\* generator never, applies no file action, runs no command, and returns
\* with a final report of 0 completed iterations; no exception leaves it.
C23_EmptyRunReturns ==
    iterations <= 0 =>
        /\ gen_calls = 0
        /\ files = InitFiles /\ dirs = InitDirs /\ file_log = <<>>
        /\ executed = <<>> /\ trace = <<>>
        /\ pc \in {"start", "done"}
        /\ pc = "done" => reported = 0
        /\ raised_by = ""

(***************************************************************************)
(* The constructor on its own: configurations and project names            *)
(***************************************************************************)
\* a name one character longer than the limit
LongName == [k \in 1..(NameLimit + 1) |-> "a"]

ProjectNames == { <<"p">>, <<"M","y"," ","A","p","p">>, <<"M","y","-","A","p","p","_","2">>, <<" ","p"," ">>, <<"a",".","b">>, <<"?","?","?">>, <<>>, LongName }

\* what load_config yields for config files that set file_manager entries
WorkspaceConfigs ==
    { [DEFAULT_CONFIG EXCEPT !.file_manager = [base_path |-> b, project_subdirs |-> s]] :
          b \in { <<"/","w">>, <<"/","w","/","p","2">> }, s \in BOOLEAN }

\* relative paths of the files created in the workspace
WorkspacePaths == { <<"a">>, <<"s","/","a">> }

InitWorkspace ==
    /\ outcomes = <<>>
    /\ pc = "new"
    /\ config \in WorkspaceConfigs
    /\ project_name \in ProjectNames
    /\ working_directory = <<>>
    /\ fm_project_path = <<>>
    /\ files = InitFiles /\ dirs = InitDirs /\ file_log = <<>>
    /\ actions = EmptyActions
    /\ raised_by = ""
    /\ iterations = 0 /\ i = -1 /\ response = <<>>
    /\ shell_cmds = <<>> /\ cmd_idx = 1 /\ executed = <<>> /\ all_results = <<>>
    /\ current_result = NoneText /\ analysis = NoAnalysis
    /\ gen_calls = 0 /\ classified = 0 /\ reported = -1
    /\ context_result = NoneText /\ procs = {} /\ trace = <<>>

\* AutoCodeforge.__init__: get_project_path and FileManager.__init__, each of
\* which creates its directory
Construct ==
    /\ pc = "new"
    /\ pc' = "constructed"
    /\ \E wd \in {get_project_path(config, project_name)} :
       \E fp \in {FileManager_project_path(config.file_manager.base_path, project_name)} :
          /\ working_directory' = wd
          /\ fm_project_path' = fp
          /\ dirs' = makedirs(fp, files, makedirs(wd, files, dirs).dirs).dirs
    /\ UNCHANGED <<config, project_name>>
    /\ UNCHANGED outcomes
    /\ UNCHANGED <<iterations, i, response, actions, files, file_log, shell_cmds, cmd_idx,
                   executed, all_results, current_result, analysis, gen_calls, classified,
                   reported, raised_by, context_result, procs, trace>>

\* a create action for a path inside the workspace: the file manager joins
\* the path with FileManager.project_path, creates the parent directories
\* and writes the file
CreateInWorkspace ==
    /\ pc = "constructed"
    /\ pc' = "created"
    /\ \E p \in WorkspacePaths :
       \E target \in {normpath(path_join(fm_project_path, p))} :
          /\ actions' = JObj(<< <<K_file_actions, JArr(<<FileAction(<<"c","r","e","a","t","e">>, JStr(p), JStr(<<"c","1">>))>>)>> >>)
          /\ dirs' = makedirs(dirname(target), files, dirs).dirs
          /\ files' = PutFile(files, target, <<"c","1">>)
          /\ file_log' = <<"created">>
    /\ UNCHANGED setup
    /\ UNCHANGED outcomes
    /\ UNCHANGED <<iterations, i, response, shell_cmds, cmd_idx,
                   executed, all_results, current_result, analysis, gen_calls, classified,
                   reported, raised_by, context_result, procs, trace>>

NextWorkspace == Construct \/ CreateInWorkspace

SpecWorkspace == InitWorkspace /\ [][NextWorkspace]_vars

\* C24: for every configuration and every project name, the directory file
\* actions are resolved against is the directory commands run in, so a file
\* created at a relative path exists at that path for a command.
C24_OneWorkspace ==
    /\ pc \in {"constructed", "created"} => fm_project_path = working_directory
    /\ pc = "created" =>
          LET p == Get(Get(actions, K_file_actions, JArr(<<>>)).a[1], K_path, JStr(<<>>)).s
          IN normpath(path_join(working_directory, p)) \in DOMAIN files

\* C25: a create or modify action whose error execute_file_actions catches
\* leaves the workspace as it was: the same files with the same contents and
\* the same directories.
C25_FailedWriteChangesNothing ==
    [][ LET given == Get(actions', K_file_actions, JArr(<<>>))
        IN (/\ given.t = "arr"
            /\ Len(given.a) = 1
            /\ given.a[1].t = "obj"
            /\ Get(given.a[1], K_action, JStr(<<>>)) \in {JStr(<<"c","r","e","a","t","e">>), JStr(<<"m","o","d","i","f","y">>)}
            /\ file_log' = <<"error">>)
               => (files' = files /\ dirs' = dirs)
      ]_vars

(***************************************************************************)
(* execute_shell_actions and analyze on given commands and results         *)
(***************************************************************************)
\* longest command list of such a run
MaxCmds == 2

\* command texts: two plain ones and three that quote a phrase the classifier looks for
CommandTexts == {
    Cmd_echo_hi, Cmd_run,
    <<"g","i","t"," ","c","o","m","m","i","t"," ","-","m"," ","'","G","o","a","l"," ","a","c","h","i","e","v","e","d","'">>,
    <<"g","r","e","p"," ","E","r","r","o","r",":"," ","b","u","i","l","d",".","l","o","g">>,
    <<"f","i","n","d","s","t","r"," ","s","u","c","c","e","s","s","f","u","l","l","y"," ","b","u","i","l","d",".","l","o","g">>
}

\* ways the execute call of a command returns
ReturningOutcomes == {
    Outcome("ok", <<"3">>, <<>>), Outcome("ok", <<"A","l","l"," ","t","e","s","t","s"," ","p","a","s","s","e","d">>, <<>>),
    Outcome("ok", <<"g","o","a","l"," ","a","c","h","i","e","v","e","d">>, <<>>), Outcome("nonzero", <<"3">>, StderrText),
    Outcome("timeout", <<>>, <<>>)
}

InitCommands ==
    /\ Constructed(DEFAULT_CONFIG, DefaultProject)
    /\ pc = "given"
    /\ \E n \in 1..MaxCmds :
          /\ shell_cmds \in [1..n -> CommandTexts]
          /\ outcomes \in [1..n -> ReturningOutcomes]
    /\ cmd_idx = 1 /\ executed = <<>> /\ all_results = <<>>
    /\ current_result = NoneText /\ analysis = NoAnalysis
    /\ files = InitFiles /\ dirs = InitDirs /\ file_log = <<>>
    /\ actions = EmptyActions
    /\ raised_by = ""
    /\ iterations = 1 /\ i = 0 /\ response = <<>>
    /\ gen_calls = 0 /\ classified = 0 /\ reported = -1
    /\ context_result = NoneText /\ procs = {} /\ trace = <<>>

\* the loop of execute_shell_actions over the whole list, the join of its
\* entries, and the classification of the joined text by run_cycle
RunCommands ==
    /\ pc = "given"
    /\ pc' = "classified"
    /\ \E entries \in {[j \in 1..Len(shell_cmds) |-> shell_entry(shell_cmds[j], outcomes[j])]} :
       \E result \in {JoinLines(entries)} :
          /\ all_results' = entries
          /\ current_result' = result
          /\ analysis' = analyze(result)
    /\ executed' = shell_cmds
    /\ cmd_idx' = Len(shell_cmds) + 1
    /\ classified' = 1
    /\ UNCHANGED setup
    /\ UNCHANGED <<iterations, i, response, actions, files, dirs, file_log, shell_cmds,
                   gen_calls, reported, raised_by, context_result, procs, trace, outcomes>>

NextCommands == RunCommands

SpecCommands == InitCommands /\ [][NextCommands]_vars

\* C26 as stated: Success, ErrorDetected and Terminate of an iteration are
\* those of the same outputs under any other command texts (here: under the
\* text "echo hi" for every command), whatever the command texts hold.
C26_CommandTextIsIgnored ==
    pc = "classified" =>
        \E a \in {analyze(JoinLines([j \in 1..Len(outcomes) |->
                       <<"C","o","m","m","a","n","d",":"," ","e","c","h","o"," ","h","i","\n","R","e","s","u","l","t",":","\n">> \o execute(outcomes[j]) \o <<"\n">>]))} :
            /\ analysis.success = a.success
            /\ analysis.has_error = a.has_error
            /\ analysis.terminate = a.terminate

\* C26, amended: the classified text holds the command texts too. When no
\* command text contains a phrase the classifier looks for, Success,
\* ErrorDetected and Terminate are those of the same outputs under any other
\* such command texts (here: under "echo hi").
C26_PlainCommandTextIsIgnored ==
    LET Plain(cmd) ==
            /\ ~_check_for_errors(cmd)
            /\ _identify_success_patterns(cmd) = {}
            /\ ~Contains(cmd, CRITICAL_ERROR)
            /\ ~ContainsAnyIgnoreCase(cmd, termination_phrases)
    IN (pc = "classified" /\ \A j \in 1..Len(shell_cmds) : Plain(shell_cmds[j])) =>
        \E a \in {analyze(JoinLines([j \in 1..Len(outcomes) |->
                       <<"C","o","m","m","a","n","d",":"," ","e","c","h","o"," ","h","i","\n","R","e","s","u","l","t",":","\n">> \o execute(outcomes[j]) \o <<"\n">>]))} :
            /\ analysis.success = a.success
            /\ analysis.has_error = a.has_error
            /\ analysis.terminate = a.terminate

\* a command other than echo hi printed a success phrase and the next one
\* the termination phrase
C26_Witness ==
    /\ pc = "classified"
    /\ shell_cmds = <<Cmd_run, Cmd_run>>
    /\ outcomes = <<Outcome("ok", <<"A","l","l"," ","t","e","s","t","s"," ","p","a","s","s","e","d">>, <<>>), Outcome("ok", <<"g","o","a","l"," ","a","c","h","i","e","v","e","d">>, <<>>)>>
    /\ analysis.success /\ analysis.terminate /\ ~analysis.has_error

\* C27: no classification has Success together with the reason "Critical
\* error occurred": a transcript that contains "CRITICAL ERROR" is
\* classified without Success.
C27_CriticalIsNeverSuccess ==
    pc = "analyzed" =>
        /\ ~(analysis.success /\ analysis.reason = Reason("Critical error occurred", <<>>))
        /\ Contains(current_result, CRITICAL_ERROR) => ~analysis.success

\* C28: an iteration without shell commands has the empty transcript and is
\* classified Success=false, Terminate=false, Reason="Empty result"; the loop
\* then goes on to the next iteration, or ends because the bound is reached:
\* a run that ends after such an iteration has used all its iterations.
C28_EmptyTranscriptNeverStopsEarly ==
    [][ /\ (pc = "commands" /\ classified' = classified + 1 /\ shell_cmds = <<>>) =>
              /\ current_result' = <<>>
              /\ ~analysis'.success
              /\ ~analysis'.terminate
              /\ analysis'.reason = Reason("Empty result", <<>>)
              /\ IF i + 1 < iterations
                 THEN pc' = "generate" /\ i' = i + 1 /\ reported' = -1
                 ELSE pc' = "done" /\ reported' = iterations
        /\ (pc' = "done" /\ current_result' = <<>>) =>
              (reported' = iterations /\ gen_calls' = iterations /\ classified' = iterations)
      ]_vars

\* three iterations, the last two of them without a command
C28_Witness ==
    /\ pc = "done"
    /\ iterations = 3
    /\ reported = 3
    /\ context_result = <<>>
    /\ current_result = <<>>
    /\ analysis.reason = Reason("Empty result", <<>>)

\* C29: for a transcript without Success and without Terminate whose only
\* specific error line is "ImportError: <msg>" (or SyntaxError, TypeError,
\* ValueError) with a non-empty message, the reason is "Import error: <msg>"
\* (or "Syntax error: ", "Type error: ", "Value error: "), <msg> being the
\* rest of that line up to its line break, whatever characters it holds.
C29_ReasonIsRestOfLine ==
    LET t == current_result
        names == << <<"M","o","d","u","l","e","N","o","t","F","o","u","n","d","E","r","r","o","r",":">>, <<"I","m","p","o","r","t","E","r","r","o","r",":">>, <<"S","y","n","t","a","x","E","r","r","o","r",":">>,
                    <<"T","y","p","e","E","r","r","o","r",":">>, <<"V","a","l","u","e","E","r","r","o","r",":">> >>
    IN (pc = "analyzed" /\ ~analysis.success /\ ~analysis.terminate) =>
          \A k \in 2..5 :
              LET lit == reason_patterns[k].lit
                  at == {p \in 1..Len(t) : MatchAt(t, lit, p)}
              IN (/\ Cardinality(at) = 1
                  /\ \A j \in (1..5) \ {k} : ~Contains(t, names[j])) =>
                    LET p == Min(at)
                        msg == SubText(t, p + Len(lit), RunEnd(t, p + Len(lit), {"\n"}) - 1)
                    IN msg # <<>> => analysis.reason = Reason(reason_patterns[k].fmt, msg)

(***************************************************************************)
(* The engine as a running program: every call it waits for returns        *)
(***************************************************************************)
InitShort ==
    /\ outcomes = <<>>
    /\ Constructed(DEFAULT_CONFIG, DefaultProject)
    /\ pc = "start"
    /\ iterations \in 0..MaxRun
    /\ i = -1
    /\ response = <<>>
    /\ actions = EmptyActions
    /\ files = InitFiles
    /\ dirs = InitDirs
    /\ file_log = <<>>
    /\ shell_cmds = <<>>
    /\ cmd_idx = 1
    /\ executed = <<>>
    /\ all_results = <<>>
    /\ current_result = NoneText
    /\ analysis = NoAnalysis
    /\ gen_calls = 0
    /\ classified = 0
    /\ reported = -1
    /\ raised_by = ""
    /\ context_result = NoneText
    /\ procs = {}
    /\ trace = <<>>

\* run_cycle is sequential code: the statement it is at is executed, and the
\* calls it waits for end (the generator call returns or raises, and
\* communicate(timeout=300) returns or raises TimeoutExpired). This is weak
\* fairness of the actions of the loop. For the actions between the generator
\* call and the classification it is written out, []<>~ENABLED <<A>>_vars \/
\* []<><<A>>_vars: one of them is enabled exactly at the positions named.
SpecLive ==
    /\ InitShort
    /\ [][Next]_vars
    /\ WF_vars(EnterLoop)
    /\ WF_vars(BeginShellActions)
    /\ \/ []<>(pc \notin {"generate", "parse", "files", "commands"})
       \/ []<><<Generate \/ Parse \/ ExecuteFileActions \/ ExecuteCommand \/ Classify>>_vars

\* C30: every run ends. The generator is called at most `iterations` times;
\* every command of an action set is handed to execute once, which starts one
\* process for it and returns when that process has ended or the timeout has
\* expired, without a second attempt; and run_cycle eventually is over, after
\* a Terminate outcome or after its last iteration (or by an exception).
C30_EveryRunTerminates ==
    /\ [](/\ gen_calls <= iterations
          /\ classified <= gen_calls
          /\ \A j, k \in 1..Len(trace) :
                (trace[j].e = "cmd" /\ trace[k].e = "cmd" /\ trace[j].k = trace[k].k) => j = k
          /\ Len(all_results) <= Len(shell_cmds)
          /\ (pc = "done" => (analysis.terminate \/ reported = iterations)))
    /\ <>(pc \in {"done", "raised", "interrupted"})

\* a run of two iterations has ended at its bound; the last command timed out
C30_Witness ==
    /\ pc = "done"
    /\ iterations = 2
    /\ reported = 2
    /\ gen_calls = 2
    /\ Len(all_results) >= 1
    /\ all_results[Len(all_results)] =
           shell_entry(shell_cmds[Len(all_results)], Outcome("timeout", <<>>, <<>>))

====
